---- MODULE Spec2Model ----
(***************************************************************************)
(* A model of the pulsar HTTP client (pulsar/apps/http/__init__.py): one   *)
(* logical call of HttpClient.request, the HttpRequest objects it builds,  *)
(* and the HttpResponse protocol consumer driven by data_received.         *)
(*                                                                         *)
(* The byte-level parser is a collaborator: a delivery is modelled by the  *)
(* state the parser reports after execute() and by whether execute()       *)
(* consumed the whole buffer.                                              *)
(***************************************************************************)
EXTENDS Integers, Sequences, FiniteSets, TLC

\* Largest value of the max_redirects parameter that a call is made with.
MaxRedirectsBound == 2

\* Largest number of status-100 responses the server sends to one request.
MaxContinue == 2

\* Largest number of calls of close() that call finished(), after a delivery.
MaxCloses == 1

\* Largest number of deliveries made to a consumer that has a stream.
MaxDeliveries == 3

\* Largest number of iterations and reads begun on one stream.
MaxPasses == 2

\* Largest number of test classes given to a Runner.
MaxClasses == 2

\* Largest number of test functions of a test class.
MaxTests == 2

(***************************************************************************)
(* Values                                                                  *)
(***************************************************************************)

Methods == {"GET", "POST"}

\* pulsar.utils.httpurl.ENCODE_URL_METHODS: methods whose data goes in the query
ENCODE_URL_METHODS == {"DELETE", "GET", "HEAD", "OPTIONS"}

\* pulsar.utils.httpurl.REDIRECT_CODES
REDIRECT_CODES == {301, 302, 303, 307}

\* A url split by urlparse; NoURL stands for None. A query string is
\* written as it is ("a=1&b=2"; "": no query).
NoURL == [scheme |-> "", netloc |-> "", path |-> "", query |-> ""]

\* The url of the logical call
URL0 == [scheme |-> "http", netloc |-> "a", path |-> "/x", query |-> ""]

\* Location header values: absent, absolute, scheme-relative ("//b/y") and
\* path-only ("/z").
NoLocation == [kind |-> "none", scheme |-> "", netloc |-> "", path |-> ""]

Locations ==
    { [kind |-> "abs", scheme |-> "https", netloc |-> "b", path |-> "/y"],
      [kind |-> "net", scheme |-> "", netloc |-> "b", path |-> "/y"],
      [kind |-> "path", scheme |-> "", netloc |-> "", path |-> "/z"] }

\* Upgrade header values ("none": the header is absent)
UpgradeValues == {"none", "websocket", "h2c"}

\* The headers of a response, as far as the consumer and the client read
\* them: Location, Upgrade, Connection and Set-Cookie ("none": absent).
NoHeaders ==
    [location |-> NoLocation, upgrade |-> "none", connection |-> "none", setcookie |-> "none"]

WithLocation(l) == [NoHeaders EXCEPT !.location = l]

WithUpgrade(u) == [NoHeaders EXCEPT !.upgrade = u]

WithConnection(c) == [NoHeaders EXCEPT !.connection = c]

WithSetCookie(v) == [NoHeaders EXCEPT !.setcookie = v]

PathLocation == [kind |-> "path", scheme |-> "", netloc |-> "", path |-> "/z"]

AbsLocation == [kind |-> "abs", scheme |-> "https", netloc |-> "b", path |-> "/y"]

\* The response heads (status line and headers) the server answers with.
Heads ==
    { [status |-> 200, headers |-> hs] : hs \in {NoHeaders, WithLocation(PathLocation)} }
    \cup { [status |-> 302, headers |-> WithLocation(l)] : l \in Locations \cup {NoLocation} }
    \cup { [status |-> 303, headers |-> hs] : hs \in {NoHeaders, WithLocation(AbsLocation)} }
    \cup { [status |-> 100, headers |-> hs] : hs \in {NoHeaders, WithLocation(PathLocation)} }
    \cup { [status |-> 101, headers |-> WithUpgrade(u)] : u \in UpgradeValues }

\* The response heads of the exchanges that exercise the client's cookie
\* jar and its connection reuse: interim and final responses with and
\* without Set-Cookie, Connection and Location headers, and redirects to
\* host "b" and within the host that set a cookie.
ClientHeads ==
    { [status |-> 100, headers |-> hs] :
        hs \in {NoHeaders, WithSetCookie("v1"), WithConnection("keep-alive"),
                WithLocation(PathLocation)} }
    \cup { [status |-> 200, headers |-> hs] :
        hs \in {NoHeaders, WithSetCookie("v2"),
                WithConnection("keep-alive"), WithConnection("close")} }
    \cup { [status |-> 302, headers |-> [WithLocation(l) EXCEPT !.setcookie = "v2"]] :
             l \in {AbsLocation, PathLocation} }

\* The hosts requests are made to: that of URL0 and that of the Locations
Hosts == {"a", "b"}

\* The calls of HttpClient.request: without data, with the byte b"d" and
\* with the field "a=1" as data; files go with a POST that has data, and
\* max_redirects is given with allow_redirects.
Calls ==
    { c \in [ method : Methods, data : {"none", "d", "a=1"}, files : {"none", "f"},
              allow : BOOLEAN, maxr : 0..MaxRedirectsBound, wait : BOOLEAN ] :
        /\ c.files = "f" => c.method = "POST" /\ c.data = "d"
        /\ ~c.allow => c.maxr = MaxRedirectsBound }

(***************************************************************************)
(* The parser (http_parser): what the consumer reads from it               *)
(***************************************************************************)

\* HttpRequest.new_parser: a parser that has seen nothing
new_parser == [hc |-> FALSE, mc |-> FALSE, status |-> 0, headers |-> NoHeaders]

\* The states parser p can be in after execute() is fed one more buffer: it
\* stays where it is, completes the headers, or completes the message.
\* Responses with status 100 and 101 have no body: they are complete with
\* their headers.
FeedsOf(p, heads) ==
    IF p.hc
    THEN {p, [p EXCEPT !.mc = TRUE]}
    ELSE {p}
         \cup { [hc |-> TRUE, mc |-> m, status |-> h.status, headers |-> h.headers] :
                  m \in BOOLEAN, h \in {x \in heads : x.status \notin {100, 101}} }
         \cup { [hc |-> TRUE, mc |-> TRUE, status |-> h.status, headers |-> h.headers] :
                  h \in {x \in heads : x.status \in {100, 101}} }

\* The feeds of one logical call answered with Heads
Feeds(p) == FeedsOf(p, Heads)

(***************************************************************************)
(* HttpRequest                                                             *)
(***************************************************************************)

\* HttpRequest.__init__ . data None becomes {} ("none"); full_url is None
\* and body is not set until encode() runs; unredirected_headers is empty
\* (cookie: the Cookie header the jar puts there, "none" without one).
\* content_length is the value of the content-length header, -1 without
\* one. data and body are byte strings; query is self.query, the query
\* string of the url.
HttpRequest(method, url, headers, data, files, history, allow, maxr, wait) ==
    [ method |-> method, url |-> url, full_url |-> NoURL,
      headers |-> headers, data |-> data, files |-> files,
      history |-> history, allow_redirects |-> allow,
      max_redirects |-> maxr, wait_continue |-> wait,
      body |-> "unset", finished |-> FALSE, cookie |-> "none",
      content_length |-> -1, query |-> url.query ]

\* The truth value of data or of a body: None ("none") and an empty byte
\* string are false
Truthy(b) == b \notin {"none", ""}

\* urllib.parse.parse_qsl(qs): the fields "name=value" of a query string,
\* in order; a field without a value is dropped. A list of fields is
\* written as the query string urlencode() gives for it, so the strings
\* that change are those with a field that has no value.
parse_qsl(qs) == IF qs \in {"d", "dd"} THEN "" ELSE qs

\* "query.extend(body)" followed by urlencode(query): the fields of both
\* lists, joined with "&"
query_extend(query, fields) ==
    IF query = "" THEN fields
    ELSE IF fields = "" THEN query
    ELSE query \o "&" \o fields

\* HttpRequest._encode_url(self.data): data that is true is parsed to a
\* list of fields and appended to the fields of self.query; the list is
\* the new self.data and its encoding the new self.query.
_encode_url(r) ==
    IF Truthy(r.data)
    THEN LET query == query_extend(parse_qsl(r.query), parse_qsl(r.data))
         IN [data |-> query, query |-> query]
    ELSE [data |-> r.data, query |-> r.query]

\* HttpRequest.encode_body: for a method of ENCODE_URL_METHODS files is
\* dropped, the data goes to the query (_encode_url) and there is no body;
\* otherwise data that is bytes is the body.
encode_body(r) ==
    IF r.method \in ENCODE_URL_METHODS
    THEN LET u == _encode_url(r)
         IN [body |-> "none", files |-> "none", data |-> u.data, query |-> u.query]
    ELSE [body |-> r.data, files |-> r.files, data |-> r.data, query |-> r.query]

\* An encode() that lets the body follow the headers whatever wait_continue
BodySent_always(b, wait_continue) == b

\* HttpRequest.encode: "if self.wait_continue: ... body = None", for a
\* body that is present: the body bytes that follow the headers
BodySent(b, wait_continue) == IF wait_continue THEN "none" ELSE b

\* HttpRequest.encode: the request as encode() leaves it, and the bytes it
\* returns (line: the method, path and query of the request line; headers;
\* expect: they carry Expect: 100-continue; sent: the body bytes that
\* follow the headers, "none" when none does).
encode(r) ==
    LET eb == encode_body(r)
        hs == IF Truthy(eb.body)
              THEN r.headers \cup {"content-length"}
                   \cup (IF r.wait_continue THEN {"expect"} ELSE {})
              ELSE r.headers
        sent == IF Truthy(eb.body) THEN BodySent(eb.body, r.wait_continue)
                ELSE "none"
    IN [ request |-> [r EXCEPT !.body = eb.body, !.files = eb.files,
                               !.data = eb.data, !.headers = hs,
                               !.content_length =
                                   IF Truthy(eb.body) THEN Len(eb.body) ELSE @,
                               !.query = eb.query,
                               !.full_url = [r.url EXCEPT !.query = eb.query]],
         line |-> <<r.method, r.url.path, eb.query>>,
         headers |-> hs,
         expect |-> "expect" \in hs,
         sent |-> sent ]

(***************************************************************************)
(* HttpResponse and HttpClient: the pure parts                             *)
(***************************************************************************)

\* HttpResponse.headers: the view cached in _headers by the first read made
\* once the parser has its headers; later reads return the cached view.
headers(cache, p) ==
    IF cache.set THEN cache.headers
    ELSE IF p.hc THEN p.headers ELSE NoHeaders

\* CookieJar.extract_cookies(response, request), called by _handle_headers:
\* the cookie of the Set-Cookie header of response.info(), the consumer's
\* headers view, is stored for the host of the request.
extract_cookies(cookies, view, request) ==
    [cookies EXCEPT ![request.url.netloc] = view.setcookie]

\* _handle_headers: client.store_cookies and 'set-cookie' in headers
StoresCookies(store, view) == store /\ view.setcookie # "none"

\* HttpRequest.get_full_url: self.full_url is set to the url with the query
\* the request holds, self.query
get_full_url(request) ==
    [request EXCEPT !.full_url = [request.url EXCEPT !.query = request.query]]

\* HttpClient.request: "if self.cookies: self.cookies.add_cookie_header(request)".
\* A jar that holds a cookie asks the request for its full url
\* (request.get_full_url(), which sets full_url) and puts the cookie it
\* holds for the host of the request in the request's unredirected headers.
add_cookie_header(cookies, request) ==
    IF \E h \in DOMAIN cookies : cookies[h] # "none"
    THEN [get_full_url(request) EXCEPT !.cookie = cookies[request.url.netloc]]
    ELSE request

\* HttpClient.can_reuse_connection(connection, response). response: there
\* is a response; view: response.headers, which is falsy when it is None
\* and when it holds no header.
can_reuse_connection(response, view) ==
    IF response /\ view # NoHeaders
    THEN view.connection = "keep-alive"
    ELSE FALSE

\* A data_received that does not compare what execute() consumed
ExecuteOk_always(consumed) == TRUE

\* data_received: parser.execute(data, len(data)) == len(data)
ExecuteOk(consumed) == consumed

\* A data_received that handles the headers in every delivery that finds
\* them complete
HandlesHeaders_always(hc, had_headers) == hc

\* data_received: "if parser.is_headers_complete(): if not had_headers:"
HandlesHeaders(hc, had_headers) == hc /\ ~had_headers

\* _handle_headers: the guard of the redirect branch
IsRedirect(status, view, allow, mc) ==
    /\ status \in REDIRECT_CODES
    /\ view.location.kind # "none"
    /\ allow
    /\ mc

\* _handle_headers: the target of a redirect. A location that starts with
\* "//" takes the scheme of the request's full url; a location without a
\* netloc is joined to the request's full url.
RedirectUrl(full_url, loc) ==
    LET l1 == IF loc.kind = "net"
              THEN [loc EXCEPT !.scheme = full_url.scheme]
              ELSE loc
    IN IF l1.netloc = ""
       THEN [scheme |-> full_url.scheme, netloc |-> full_url.netloc, path |-> l1.path,
             query |-> ""]
       ELSE [scheme |-> l1.scheme, netloc |-> l1.netloc, path |-> l1.path, query |-> ""]

\* A _handle_headers that follows a redirect when the history already has
\* max_redirects entries
TooManyRedirects_above(history, max_redirects) == Len(history) > max_redirects

\* _handle_headers: len(self.history) >= request.max_redirects
TooManyRedirects(history, max_redirects) == Len(history) >= max_redirects

\* HttpClient: the upgrade_<name> methods it defines
UpgradeHandlers == {"websocket"}

\* HttpClient.upgrade: the handler named after the Upgrade header of the
\* consumer's headers; headers['upgrade'] of an absent header is a KeyError.
\* The handler is called with (connection, consumer).
upgrade(view, connection, consumer) ==
    IF view.upgrade = "none"
    THEN [raise |-> "KeyError", handler |-> "none", connection |-> 0, consumer |-> 0]
    ELSE IF view.upgrade \notin UpgradeHandlers
    THEN [raise |-> "ProtocolError", handler |-> "none", connection |-> 0, consumer |-> 0]
    ELSE [raise |-> "none", handler |-> view.upgrade,
          connection |-> connection, consumer |-> consumer]

NoUpgrade == [raise |-> "none", handler |-> "none", connection |-> 0, consumer |-> 0]

\* response.status_code is 303: an identity test of two int objects. The
\* int the parser built and the literal are equal when both are 303, and
\* whether they are one object is up to the interpreter.
StatusIs303(status) == IF status = 303 THEN BOOLEAN ELSE {FALSE}

\* A _handle_headers whose status-100 branch resets the parser and writes
\* the body but returns nothing
_handle_headers_noreturn(request, status, mc, view, hop) ==
    IF IsRedirect(status, view, request.allow_redirects, mc)
    THEN [ branch |-> "redirect",
           raise |-> IF TooManyRedirects(request.history, request.max_redirects)
                     THEN "TooManyRedirects" ELSE "none",
           url |-> RedirectUrl(request.full_url, view.location),
           up |-> NoUpgrade,
           ret |-> ~TooManyRedirects(request.history, request.max_redirects) ]
    ELSE IF status = 100
    THEN [ branch |-> "continue", raise |-> "none", url |-> NoURL,
           up |-> NoUpgrade, ret |-> FALSE ]
    ELSE IF status = 101
    THEN LET u == upgrade(view, hop, hop)
         IN [ branch |-> "upgrade", raise |-> u.raise, url |-> NoURL,
              up |-> u, ret |-> u.raise = "none" ]
    ELSE [ branch |-> "none", raise |-> "none", url |-> NoURL,
           up |-> NoUpgrade, ret |-> FALSE ]

\* HttpResponse._handle_headers, as far as it decides: the branch taken,
\* the exception raised, the redirect target, the upgrade and whether the
\* value returned is true.
_handle_headers(request, status, mc, view, hop) ==
    IF IsRedirect(status, view, request.allow_redirects, mc)
    THEN [ branch |-> "redirect",
           raise |-> IF TooManyRedirects(request.history, request.max_redirects)
                     THEN "TooManyRedirects" ELSE "none",
           url |-> RedirectUrl(request.full_url, view.location),
           up |-> NoUpgrade,
           ret |-> ~TooManyRedirects(request.history, request.max_redirects) ]
    ELSE IF status = 100
    THEN [ branch |-> "continue", raise |-> "none", url |-> NoURL,
           up |-> NoUpgrade, ret |-> TRUE ]
    ELSE IF status = 101
    THEN LET u == upgrade(view, hop, hop)
         IN [ branch |-> "upgrade", raise |-> u.raise, url |-> NoURL,
              up |-> u, ret |-> u.raise = "none" ]
    ELSE [ branch |-> "none", raise |-> "none", url |-> NoURL,
           up |-> NoUpgrade, ret |-> FALSE ]

NoOutcome ==
    [ branch |-> "none", raise |-> "none", url |-> NoURL,
      up |-> NoUpgrade, ret |-> FALSE ]

\* A data_received that goes on to the completion test after a new response
ReturnsEarly_never(new_response) == FALSE

\* data_received: "if new_response: ... return"
ReturnsEarly(new_response) == new_response

\* A data_received that finishes as soon as the headers are complete
MessageComplete_always(p) == TRUE

\* data_received: parser.is_message_complete(), on the parser that was fed
MessageComplete(p) == p.mc

\* A request() that puts the response in front of the copied history
NextHistory_prepend(history, response) == <<response>> \o history

\* HttpClient.request with a response: the history of the new request, a
\* copy of the previous request's history with the response appended
NextHistory(history, response) == Append(history, response)

\* HttpResponse.close: when parser.is_message_complete(), self.finished()
\* is called, and then self.next_url is read, an attribute that no code of
\* the class sets; otherwise nothing is done.
close(mc, f, consumer) ==
    IF mc
    THEN [ fired |-> Append(f, [by |-> consumer, result |-> "self"]),
           raise |-> "AttributeError" ]
    ELSE [fired |-> f, raise |-> "none"]

\* A request() that appends the response to the list the previous request
\* holds, without copying it: the two requests hold one list
HistoryLists_shared(lists, response) ==
    LET history == NextHistory(lists[Len(lists)], response)
    IN Append([lists EXCEPT ![Len(lists)] = history], history)

\* HttpClient.request with a response: the lists the requests of the chain
\* hold, in the order of the hops. copy(rparams['history']) is a new list
\* and history.append() changes that list only; the new request holds it.
HistoryLists(lists, response) ==
    Append(lists, NextHistory(lists[Len(lists)], response))

\* HttpClient.request with a response: the method of the new request
NextMethod(is303, method) == IF is303 THEN "GET" ELSE method

\* HttpClient.request with a response: the previous request's parameters
\* (all_params) as they are carried to the new request; with status 303
\* data and files are popped.
NextParams(is303, request) ==
    [ data |-> IF is303 THEN "none" ELSE request.data,
      files |-> IF is303 THEN "none" ELSE request.files,
      headers |-> request.headers,
      content_length |-> request.content_length,
      allow_redirects |-> request.allow_redirects,
      max_redirects |-> request.max_redirects,
      wait_continue |-> request.wait_continue ]

\* HttpClient.request with a response: the request of the next hop
RedirectRequest(request, url, response, is303) ==
    LET rp == NextParams(is303, request)
    IN [ HttpRequest(NextMethod(is303, request.method), url, rp.headers,
                     rp.data, rp.files, NextHistory(request.history, response),
                     rp.allow_redirects, rp.max_redirects, rp.wait_continue)
         EXCEPT !.content_length = rp.content_length ]

\* ProtocolConsumer.reset_connection: the response that is appended to the
\* history, told from the other responses by the hop it served.
reset_connection(consumer) == [hop |-> consumer]

\* HttpResponse.recv_body(): parser.recv_body() returns the body the
\* parser holds (held) and flushes it
recv_body(held) == [data |-> held, body |-> <<>>]

\* What HttpResponse.start_request writes: the encoded request
RequestWrite(conn, enc) ==
    [ conn |-> conn, kind |-> "request", method |-> enc.request.method,
      expect |-> enc.expect, body |-> enc.sent ]

\* What _handle_headers writes on status 100: request.body
BodyWrite(conn, request) ==
    [ conn |-> conn, kind |-> "body", method |-> request.method,
      expect |-> FALSE, body |-> request.body ]

(***************************************************************************)
(* Runner (pulsar/apps/test/runner.py): the pure parts. The state of a     *)
(* Runner is a record: sequential is cfg.sequential; classes the test      *)
(* classes it was given (skip: the class is marked skipped; tests: for     *)
(* each test function, whether it is marked skipped); tests is self.tests  *)
(* and concurrent self.concurrent, of class numbers; started tells that    *)
(* the task _run_all_tests has begun; cpc is where the coroutine           *)
(* _run_testcls of each class stands and ccalls what it called; t holds    *)
(* for each test where its coroutine _run_test stands (pc), the local      *)
(* variable error, and what was called for the test, in order; ended,      *)
(* exiting and halted follow _check_done and _exit.                        *)
(* A fixture or test function is awaited by the coroutine that calls it:   *)
(* the call and what follows its completion are two steps.                 *)
(***************************************************************************)

\* The test classes: marked skipped or not, without the attribute
\* _sequential_execution ("unset") or with it set to True or False, with
\* 0..MaxTests test functions each marked skipped or not
TestClasses ==
    { [skip |-> k, _sequential_execution |-> q, tests |-> ts] :
        k \in BOOLEAN, q \in {"unset", "True", "False"},
        ts \in UNION { [1..n -> BOOLEAN] : n \in 0..MaxTests } }

\* The lists of test classes a Runner is given
TestLists == UNION { [1..n -> TestClasses] : n \in 0..MaxClasses }

\* A test before _run_test
NewTest == [pc |-> "new", error |-> FALSE, calls |-> <<>>]

\* list(reversed(tests)), of class numbers
reversed(n) == [i \in 1..n |-> n + 1 - i]

\* Runner.__init__(monitor, runner, tests)
Runner(tests, sequential) ==
    [ sequential |-> sequential,
      classes |-> tests,
      tests |-> reversed(Len(tests)),
      concurrent |-> {},
      started |-> FALSE,
      cpc |-> [c \in DOMAIN tests |-> "pending"],
      ccalls |-> [c \in DOMAIN tests |-> <<>>],
      t |-> [c \in DOMAIN tests |-> [j \in DOMAIN tests[c].tests |-> NewTest]],
      ended |-> FALSE, exiting |-> FALSE, halted |-> FALSE ]

\* No Runner: one without test classes
NoSuite == Runner(<<>>, FALSE)

\* Runner._run_testcls: seq = getattr(testcls, '_sequential_execution',
\* cfg.sequential)
seq(s, c) ==
    IF s.classes[c]._sequential_execution = "unset" THEN s.sequential
    ELSE s.classes[c]._sequential_execution = "True"

\* Runner.add_failure(test, failure): the failure is added to the result
\* as an expected failure, a failure or an error
add_failure(s, c, j) == [s EXCEPT !.t[c][j].calls = Append(@, "add_failure")]

\* method() of _run_safe and of _run: the fixture or test function is
\* called and its coroutine awaited
call(s, c, j, method) ==
    [s EXCEPT !.t[c][j].calls = Append(@, method), !.t[c][j].pc = method]

\* Runner._run_safe(test, method, error) once the method has completed,
\* raised telling whether with an exception: the value it returns (error:
\* whether it is true) and whether it calls add_failure. "return error" is
\* in the except clause: without an exception None is returned.
_run_safe(raised, error) ==
    IF raised
    THEN [error |-> TRUE, add_failure |-> ~error]
    ELSE [error |-> FALSE, add_failure |-> FALSE]

\* A _run_test that runs the test function whatever setUp did
SkipsTest_never(error) == FALSE

\* Runner._run_test: "if not error:" before the test function
SkipsTest(error) == error

\* Runner._run_test(test) up to its first suspension: startTest, then
\* addSkip and stopTest for a test function marked skipped, else setUp
_run_test(s, c, j) ==
    LET s1 == [s EXCEPT !.t[c][j].calls = Append(@, "startTest")]
    IN IF s.classes[c].tests[j]
       THEN [s1 EXCEPT !.t[c][j].calls = @ \o <<"addSkip", "stopTest">>,
                       !.t[c][j].pc = "released"]
       ELSE call(s1, c, j, "setUp")

\* Runner._run_test resumed when the method it awaits has completed: the
\* rest of _run_safe, and _run_test up to its next suspension
_run_test_resumed(s, c, j, raised) ==
    LET tc == s.t[c][j]
        passed == IF tc.pc = "tearDown" THEN tc.error ELSE FALSE
        rs == _run_safe(raised, passed)
        s1 == IF raised THEN [s EXCEPT !.t[c][j].calls = Append(@, "raise")] ELSE s
        s2 == IF rs.add_failure THEN add_failure(s1, c, j) ELSE s1
        s3 == [s2 EXCEPT !.t[c][j].error = rs.error]
    IN IF tc.pc = "setUp"
       THEN IF SkipsTest(rs.error) THEN call(s3, c, j, "tearDown")
            ELSE call(s3, c, j, "test")
       ELSE IF tc.pc = "test"
       THEN call(s3, c, j, "tearDown")
       ELSE [s3 EXCEPT !.t[c][j].calls =
                          IF rs.error THEN Append(@, "stopTest")
                          ELSE @ \o <<"addSuccess", "stopTest">>,
                       !.t[c][j].pc = "released"]

\* Runner._run_testcls(testcls, all_tests) up to its first suspension: it
\* awaits setUpClass
_run_testcls(s, c) ==
    [s EXCEPT !.ccalls[c] = Append(@, "setUpClass"), !.cpc[c] = "setUpClass"]

\* Runner._run_testcls after the tests: it awaits tearDownClass
tearDownClass(s, c) ==
    [s EXCEPT !.ccalls[c] = Append(@, "tearDownClass"), !.cpc[c] = "tearDownClass"]

\* Runner._run_all_tests: the loop "while self.tests", from its head up to
\* the suspension of the task or its end. A class without test cases is
\* passed over; the tests of a class marked skipped are added as skipped;
\* another class joins self.concurrent and its coroutine is awaited when
\* cfg.sequential and made into a task of its own otherwise, which the
\* loop begins later.
RECURSIVE _run_all_tests(_)
_run_all_tests(s) ==
    IF s.tests = <<>> THEN s
    ELSE LET c == s.tests[Len(s.tests)]
             s1 == [s EXCEPT !.tests = SubSeq(@, 1, Len(@) - 1)]
             s2 == [s1 EXCEPT !.ccalls[c] = Append(@, "startTestClass")]
         IN IF Len(s.classes[c].tests) = 0
            THEN _run_all_tests([s1 EXCEPT !.cpc[c] = "empty"])
            ELSE IF s.classes[c].skip
            THEN _run_all_tests(
                   [s2 EXCEPT !.cpc[c] = "skipped",
                              !.t[c] = [j \in DOMAIN @ |->
                                          [@[j] EXCEPT !.calls = Append(@, "addSkip")]]])
            ELSE LET s3 == [s2 EXCEPT !.concurrent = @ \cup {c}]
                 IN IF s.sequential THEN _run_testcls(s3, c)
                    ELSE _run_all_tests(s3)

\* Runner._run_testcls: the "return" of the except clause of setUpClass
\* leaves self.concurrent as it is
ConcurrentAfterFailure(concurrent, c) == concurrent

\* Runner._run_testcls resumed when setUpClass has completed. With an
\* exception every test is given the failure and the coroutine returns;
\* _run_all_tests, when it awaits the coroutine, goes on with its loop.
\* Otherwise the coroutine releases the loop ("yield None").
setUpClass_done(s, c, raised) ==
    IF raised
    THEN LET s1 == [s EXCEPT !.ccalls[c] = Append(@, "raise"),
                             !.cpc[c] = "failed",
                             !.concurrent = ConcurrentAfterFailure(@, c),
                             !.t[c] = [j \in DOMAIN @ |->
                                         [@[j] EXCEPT !.calls = Append(@, "add_failure")]]]
         IN IF s.sequential THEN _run_all_tests(s1) ELSE s1
    ELSE [s EXCEPT !.cpc[c] = "released"]

\* Runner._run_testcls resumed after "yield None": the tests are run one
\* after the other when seq, and given to asyncio.wait as coroutines
\* otherwise
tests_begin(s, c) ==
    IF seq(s, c)
    THEN _run_test([s EXCEPT !.cpc[c] = "tests"], c, 1)
    ELSE [s EXCEPT !.cpc[c] = "tests"]

\* Runner._run_test resumed after its "yield None": it ends; when the
\* tests are run one after the other the next one is run, and after the
\* last tearDownClass is awaited
_run_test_ended(s, c, j) ==
    LET s1 == [s EXCEPT !.t[c][j].pc = "finished"]
    IN IF ~seq(s, c) THEN s1
       ELSE IF j < Len(s.classes[c].tests) THEN _run_test(s1, c, j + 1)
       ELSE tearDownClass(s1, c)

\* Runner._run_testcls resumed when tearDownClass has completed: an
\* exception is logged, the class leaves self.concurrent, and
\* _run_all_tests, when it awaits the coroutine, goes on with its loop
tearDownClass_done(s, c, raised) ==
    LET s1 == [s EXCEPT !.ccalls[c] = IF raised THEN Append(@, "raise") ELSE @,
                        !.cpc[c] = "done",
                        !.concurrent = @ \ {c}]
    IN IF s.sequential THEN _run_all_tests(s1) ELSE s1

\* Runner._check_done: it calls itself again while a class is in self.tests
\* or in self.concurrent, and else ends the run: on_end, printSummary, and
\* _exit scheduled
_check_done(s) ==
    IF s.tests # <<>> \/ s.concurrent # {}
    THEN s
    ELSE [s EXCEPT !.ended = TRUE, !.exiting = TRUE]

(***************************************************************************)
(* State                                                                   *)
(***************************************************************************)

VARIABLES
    hop,        \* the number of requests started: the consumer in charge
    request,    \* current_request of the consumer in charge
    parser,     \* request.parser
    hcache,     \* that consumer's _headers: [set, headers]
    transport,  \* what that consumer has written to its connection, in order
    fired,      \* the firings of the caller-visible on_finished
    phase,      \* "idle", "active", "done", "upgraded" or "failed"
    error,      \* the exception data_received raised, or "none"
    upgraded,   \* the call of the upgrade handler, NoUpgrade before it
    last,       \* what the last step did
    jar,        \* client.cookies: the cookie held for each host
    store_cookies,  \* client.store_cookies
    body,       \* the decoded body bytes the parser holds until recv_body()
    stream,     \* the HttpStream of the consumer and the passes made over it
    applied,    \* an application of a method of a request or of a response
    suite,      \* the Runner of a test suite (pulsar/apps/test/runner.py)
    histories   \* the list each request of the chain holds as its history

vars ==
    <<hop, request, parser, hcache, transport, fired, phase, error, upgraded, last,
      jar, store_cookies, body, stream, applied, suite, histories>>

NoCache == [set |-> FALSE, headers |-> NoHeaders]

NoRequest == HttpRequest("", NoURL, {}, "none", "none", <<>>, FALSE, 0, FALSE)

NoStep ==
    [ op |-> "none", hop |-> 0, ok |-> TRUE, p |-> new_parser, handled |-> FALSE,
      view |-> NoHeaders, branch |-> "none", is303 |-> FALSE,
      returned |-> FALSE, evalmc |-> FALSE, request |-> NoRequest, url |-> NoURL,
      closes |-> 0, raise |-> "none" ]

\* The number of times the consumer in charge has written request.body
BodyWrites == Cardinality({i \in DOMAIN transport : transport[i].kind = "body"})

\* HttpStream.__init__: no connection, an empty queue. attached: whether
\* connection() was called; passes: the iterations and reads begun, in
\* order; n: the deliveries made; pushed: whether the last delivery put a
\* chunk on the queue; op: what the last step did with the stream;
\* decoded: the body fragments the parser decoded, in the order of arrival;
\* taken: the fragments the caller took from the parser with recv_body().
NoStream ==
    [ conn |-> "none", attached |-> FALSE, queue |-> <<>>, passes |-> <<>>,
      n |-> 0, pushed |-> FALSE, op |-> "none", decoded |-> <<>>,
      taken |-> <<>> ]

\* No method applied
NoApplication == [op |-> "none"]

\* HttpClient.setup: cookiejar_from_dict(None), an empty jar
NoCookies == [h \in Hosts |-> "none"]

\* HttpClient.setup(store_cookies=True), a client of one logical call
Init ==
    /\ hop = 0
    /\ request = NoRequest
    /\ parser = new_parser
    /\ hcache = NoCache
    /\ transport = <<>>
    /\ fired = <<>>
    /\ phase = "idle"
    /\ error = "none"
    /\ upgraded = NoUpgrade
    /\ last = NoStep
    /\ jar = NoCookies
    /\ store_cookies = TRUE
    /\ body = <<>>
    /\ stream = NoStream
    /\ applied = NoApplication
    /\ suite = NoSuite
    /\ histories = <<>>

(***************************************************************************)
(* HttpClient.request(method, url, **params) of the caller: the request is *)
(* built, and Client.response starts a consumer on a connection, which     *)
(* writes the encoded request (start_request).                             *)
(***************************************************************************)
StartRequest(method, data, files, allow, maxr, wait) ==
    /\ LET enc == encode(add_cookie_header(jar,
                      HttpRequest(method, URL0, {}, data, files, <<>>,
                                  allow, maxr, wait)))
       IN /\ request' = enc.request
          /\ transport' = <<RequestWrite(1, enc)>>
          /\ histories' = <<enc.request.history>>
    /\ hop' = 1
    /\ parser' = new_parser
    /\ hcache' = NoCache
    /\ phase' = "active"
    /\ fired' = <<>>
    /\ error' = "none"
    /\ upgraded' = NoUpgrade
    /\ last' = [NoStep EXCEPT !.op = "request", !.hop = 1]
    /\ UNCHANGED <<jar, store_cookies, body, stream, applied, suite>>

\* The first call made with the client
Request(method, data, files, allow, maxr, wait) ==
    /\ phase = "idle"
    /\ StartRequest(method, data, files, allow, maxr, wait)

\* A later call made with the same client, once the call before is done
RequestAgain(method, data, files, allow, maxr, wait) ==
    /\ phase = "done"
    /\ StartRequest(method, data, files, allow, maxr, wait)

(***************************************************************************)
(* HttpResponse.data_received(data), with _handle_headers and, for a       *)
(* redirect, HttpClient.request(method, url, response=self) and the start  *)
(* of the next hop. p is the parser after execute(), consumed whether      *)
(* execute() took the whole buffer, is303 the outcome of "is 303".         *)
(* last.request is the request this consumer served, as the step left it.  *)
(***************************************************************************)
DataReceived(p, consumed, is303) ==
    /\ phase = "active"
    /\ p.status = 100 /\ ~parser.hc => BodyWrites < MaxContinue
    /\ LET had_headers == parser.hc
           ok == ExecuteOk(consumed)
           handled == ok /\ HandlesHeaders(p.hc, had_headers)
           view == headers(hcache, p)
           out == IF handled
                  THEN _handle_headers(request, p.status, p.mc, view, hop)
                  ELSE NoOutcome
           raise == IF ok THEN out.raise ELSE "ProtocolError"
           followed == out.branch = "redirect" /\ raise = "none"
           continued == out.branch = "continue"
           handed == out.branch = "upgrade" /\ raise = "none"
           returned == handled /\ raise = "none" /\ ReturnsEarly(out.ret)
           evalmc == ok /\ raise = "none" /\ p.hc /\ ~returned
           done == evalmc /\ MessageComplete(p)
           \* self.current_request == request: it is None after a redirect
           fire == done /\ ~followed
           jar1 == IF handled /\ StoresCookies(store_cookies, view)
                   THEN extract_cookies(jar, view, request)
                   ELSE jar
           enc == encode(add_cookie_header(jar1,
                     RedirectRequest(request, out.url,
                                     reset_connection(hop), is303)))
           marked == IF done THEN [request EXCEPT !.finished = TRUE] ELSE request
       IN /\ hop' = IF followed THEN hop + 1 ELSE hop
          /\ request' = IF followed THEN enc.request ELSE marked
          /\ parser' = IF followed \/ continued THEN new_parser ELSE p
          /\ hcache' = IF followed THEN NoCache
                       ELSE IF handled THEN [set |-> TRUE, headers |-> view]
                       ELSE hcache
          /\ transport' = IF followed THEN <<RequestWrite(hop + 1, enc)>>
                          ELSE IF continued THEN Append(transport, BodyWrite(hop, request))
                          ELSE transport
          /\ fired' = IF fire THEN Append(fired, [by |-> hop, result |-> "self"])
                      ELSE fired
          /\ error' = raise
          /\ upgraded' = IF handed THEN out.up ELSE upgraded
          /\ phase' = IF raise # "none" THEN "failed"
                      ELSE IF handed THEN "upgraded"
                      ELSE IF fire THEN "done"
                      ELSE "active"
          /\ last' = [ op |-> "data_received", hop |-> hop, ok |-> consumed, p |-> p,
                       handled |-> handled,
                       view |-> IF handled THEN view ELSE NoHeaders,
                       branch |-> out.branch,
                       is303 |-> followed /\ is303,
                       returned |-> returned, evalmc |-> evalmc,
                       request |-> marked, url |-> out.url,
                       closes |-> 0, raise |-> raise ]
          /\ jar' = jar1
          /\ histories' = IF followed
                          THEN HistoryLists(histories, reset_connection(hop))
                          ELSE histories
          /\ UNCHANGED store_cookies

(***************************************************************************)
(* HttpResponse.close(), called by the caller on the consumer in charge.   *)
(* last.closes counts the calls since the last delivery that called        *)
(* finished(), and last.raise is what the call raised.                     *)
(***************************************************************************)
Close ==
    /\ phase # "idle"
    /\ last.closes < MaxCloses
    /\ LET c == close(parser.mc, fired, hop)
       IN /\ fired' = c.fired
          /\ last' = IF parser.mc
                     THEN [last EXCEPT !.op = "close", !.closes = @ + 1,
                                       !.raise = c.raise]
                     ELSE last
    /\ UNCHANGED <<hop, request, parser, hcache, transport, phase, error, upgraded,
                   jar, store_cookies, body, stream, applied, suite, histories>>

Next ==
    \/ \E c \in Calls :
            Request(c.method, c.data, c.files, c.allow, c.maxr, c.wait)
    \/ \E p \in Feeds(parser), consumed \in BOOLEAN :
         \E is303 \in StatusIs303(p.status) :
            DataReceived(p, consumed, is303) /\ UNCHANGED <<body, stream, applied, suite>>
    \/ Close

Spec == Init /\ [][Next]_vars

(***************************************************************************)
(* The client over several calls: its cookie jar and connection reuse      *)
(***************************************************************************)

\* The calls made with the client: a GET, and a POST whose body waits for
\* "100 Continue"
ClientCalls ==
    { c \in Calls : /\ c.files = "none"
                    /\ c.maxr = MaxRedirectsBound
                    /\ \/ c.method = "GET" /\ c.data = "none" /\ ~c.wait
                       \/ c.method = "POST" /\ c.data = "d" /\ c.wait }

\* HttpClient.setup(store_cookies=...)
ClientInit ==
    /\ hop = 0
    /\ request = NoRequest
    /\ parser = new_parser
    /\ hcache = NoCache
    /\ transport = <<>>
    /\ fired = <<>>
    /\ phase = "idle"
    /\ error = "none"
    /\ upgraded = NoUpgrade
    /\ last = NoStep
    /\ jar = NoCookies
    /\ store_cookies \in BOOLEAN
    /\ body = <<>>
    /\ stream = NoStream
    /\ applied = NoApplication
    /\ suite = NoSuite
    /\ histories = <<>>

\* _handle_headers of another consumer of the same client, for a response
\* from host that carries the Set-Cookie value v: the client's jar is shared
\* by the consumers that run under the loop.
OtherResponse(host, v) ==
    /\ phase = "active"
    /\ LET view == WithSetCookie(v)
           other == HttpRequest("GET", [URL0 EXCEPT !.netloc = host], {},
                                "none", "none", <<>>, FALSE, 0, FALSE)
       IN /\ jar' = IF StoresCookies(store_cookies, view)
                    THEN extract_cookies(jar, view, other)
                    ELSE jar
          /\ last' = [NoStep EXCEPT !.op = "other_response",
                                    !.p = [new_parser EXCEPT !.hc = TRUE, !.status = 200,
                                                             !.headers = view]]
    /\ UNCHANGED <<hop, request, parser, hcache, transport, fired, phase, error,
                   upgraded, store_cookies, body, stream, applied, suite, histories>>

ClientNext ==
    \/ \E c \in ClientCalls :
            Request(c.method, c.data, c.files, c.allow, c.maxr, c.wait)
    \/ \E c \in ClientCalls :
            RequestAgain(c.method, c.data, c.files, c.allow, c.maxr, c.wait)
    \/ \E p \in FeedsOf(parser, ClientHeads), consumed \in BOOLEAN :
            DataReceived(p, consumed, FALSE) /\ UNCHANGED <<body, stream, applied, suite>>
    \/ \E v \in {"v1", "v2"} : OtherResponse("a", v)
    \/ Close

ClientSpec == ClientInit /\ [][ClientNext]_vars

(***************************************************************************)
(* HttpStream (pulsar/apps/http/stream.py): the streaming body of one      *)
(* response. The stream is called with the response after data_received   *)
(* in every delivery. A body fragment is named by the number of the        *)
(* delivery that brought it; a chunk is a sequence of fragments.           *)
(***************************************************************************)

\* The response of an exchange that is streamed
StreamHeads == { [status |-> 200, headers |-> NoHeaders] }

\* HttpStream.done: self._response.on_finished.fired(). The future is fired
\* by finished(), which the consumer calls at message complete.
done(f) == f # <<>>

\* The passes that wait for the future of a queue.get()
Waiting(passes) == {i \in DOMAIN passes : passes[i].state = "waiting"}

\* asyncio.Queue.put_nowait: the chunk goes on the queue; a getter that
\* waits is woken and takes a chunk when the loop runs it
put_nowait(st, chunk) == [st EXCEPT !.queue = Append(@, chunk)]

\* asyncio.Queue.get, run by the loop for the future a pass was given: the
\* chunk in front of the queue is the result of the future
get(st, i) ==
    [st EXCEPT !.queue = Tail(@),
               !.passes[i].got = Append(@, Head(st.queue)),
               !.passes[i].state = "running"]

\* HttpStream.__call__: self._conn is None and
\* response.parser.is_headers_complete()
StreamPushes(conn, hc) == conn = "none" /\ hc

\* A __call__ that puts the body on the queue and leaves it with the parser
__call___unflushed(st, hc, buf) ==
    IF StreamPushes(st.conn, hc)
    THEN [stream |-> put_nowait(st, buf), body |-> buf, pushed |-> TRUE]
    ELSE [stream |-> st, body |-> buf, pushed |-> FALSE]

\* HttpStream.__call__(response): the queue is given response.recv_body(),
\* which drains the body the parser holds (buf)
__call__(st, hc, buf) ==
    IF StreamPushes(st.conn, hc)
    THEN [stream |-> put_nowait(st, buf), body |-> <<>>, pushed |-> TRUE]
    ELSE [stream |-> st, body |-> buf, pushed |-> FALSE]

\* A read() that iterates whether or not there is a connection
ReadReturnsEmpty_never(conn) == FALSE

\* HttpStream.read: "if self._conn is None: return b''"
ReadReturnsEmpty(conn) == conn = "none"

\* An __iter__ that does not test the connection
StreamConsumed_never(conn) == FALSE

\* HttpStream.__iter__: "if self._conn is None: raise StreamConsumedError"
StreamConsumed(conn) == conn = "none"

\* An __iter__ that keeps the connection
ConnAfterIter_kept(conn) == conn

\* HttpStream.__iter__: "self._conn = None"
ConnAfterIter(conn) == "none"

\* HttpStream.__iter__: one turn of "while True" for pass i, up to its
\* yield. When the exchange is done the chunk in front of the queue is
\* yielded (get_nowait), and with an empty queue the iteration ends;
\* otherwise the future of queue.get() is yielded, which is pending, and
\* the caller waits for it.
LoopTurn(st, i, isdone) ==
    IF isdone
    THEN IF st.queue # <<>>
         THEN [st EXCEPT !.queue = Tail(@),
                         !.passes[i].got = Append(@, Head(st.queue)),
                         !.passes[i].state = "running"]
         ELSE [st EXCEPT !.passes[i].state = "ended"]
    ELSE [st EXCEPT !.passes[i].state = "waiting"]

\* The turns pass i runs in one callback. read() appends a chunk that is
\* not awaitable and takes the next turn at once, so it goes on until it
\* is yielded a future, which it awaits, or the iteration ends; next() of
\* an iterator runs one turn.
RECURSIVE Turns(_, _, _)
Turns(st, i, isdone) ==
    LET t == LoopTurn(st, i, isdone)
    IN IF t.passes[i].kind = "read" /\ t.passes[i].state = "running"
       THEN Turns(t, i, isdone)
       ELSE t

\* A pass as it begins
NewPass(kind, state) == [kind |-> kind, state |-> state, got |-> <<>>]

\* HttpStream.connection(conn), called once for a stream
connection ==
    /\ phase # "idle"
    /\ ~stream.attached
    /\ stream' = [stream EXCEPT !.conn = "conn", !.attached = TRUE,
                                !.op = "connection"]
    /\ UNCHANGED <<hop, request, parser, hcache, transport, fired, phase, error,
                   upgraded, last, jar, store_cookies, body, applied, suite, histories>>

\* The caller begins a pass over the stream: kind "read" is read(), which
\* runs up to its first await or to its end, and kind "iter" is the first
\* next() of iter(stream), which runs __iter__ up to its first yield.
BeginPass(kind) ==
    /\ phase # "idle"
    /\ Len(stream.passes) < MaxPasses
    /\ LET i == Len(stream.passes) + 1
       IN IF kind = "read" /\ ReadReturnsEmpty(stream.conn)
          THEN /\ stream' = [stream EXCEPT !.passes = Append(@, NewPass(kind, "empty")),
                                           !.op = "begin"]
               /\ body' = body
          ELSE IF StreamConsumed(stream.conn)
          THEN /\ stream' = [stream EXCEPT !.passes = Append(@, NewPass(kind, "raised")),
                                           !.op = "begin"]
               /\ body' = body
          ELSE LET st1 == [stream EXCEPT !.conn = ConnAfterIter(@),
                                         !.passes = Append(@, NewPass(kind, "running")),
                                         !.op = "begin"]
                   c == __call__(st1, parser.hc, body)
               IN /\ stream' = Turns(c.stream, i, done(fired))
                  /\ body' = c.body
    /\ UNCHANGED <<hop, request, parser, hcache, transport, fired, phase, error,
                   upgraded, last, jar, store_cookies, applied, suite, histories>>

\* Pass i goes on: the caller of an iterator calls next(), which resumes
\* __iter__, and the loop resumes a read() whose future has its chunk
NextChunk(i) ==
    /\ i \in DOMAIN stream.passes
    /\ stream.passes[i].state = "running"
    /\ stream' = [Turns(stream, i, done(fired)) EXCEPT !.op = "next"]
    /\ UNCHANGED <<hop, request, parser, hcache, transport, fired, phase, error,
                   upgraded, last, jar, store_cookies, body, applied, suite, histories>>

\* The loop runs the queue.get() of the future pass i waits for, and the
\* caller, which awaits the future, is given the chunk
Get(i) ==
    /\ i \in DOMAIN stream.passes
    /\ stream.passes[i].state = "waiting"
    /\ stream.queue # <<>>
    /\ stream' = [get(stream, i) EXCEPT !.op = "get"]
    /\ UNCHANGED <<hop, request, parser, hcache, transport, fired, phase, error,
                   upgraded, last, jar, store_cookies, body, applied, suite, histories>>

\* The caller of a streamed response calls response.recv_body() (or
\* get_content(), which calls it): the body the parser holds is flushed
\* and does not reach the stream
StreamRecvBody ==
    /\ phase # "idle"
    /\ LET b == recv_body(body)
       IN /\ stream' = [stream EXCEPT !.op = "recv_body", !.taken = @ \o b.data]
          /\ body' = b.body
    /\ UNCHANGED <<hop, request, parser, hcache, transport, fired, phase, error,
                   upgraded, last, jar, store_cookies, applied, suite, histories>>

\* What a delivery does to the parser's body and to the stream, after
\* data_received: when frag, the delivery brought body bytes, which the
\* parser holds; the stream is called unless data_received raised.
data_processed(frag) ==
    LET n1 == stream.n + 1
        st == [stream EXCEPT !.n = n1, !.op = "delivery", !.pushed = FALSE,
                             !.decoded = IF frag THEN Append(@, n1) ELSE @]
        buf == IF frag THEN Append(body, n1) ELSE body
        c == __call__(st, parser'.hc, buf)
    IN IF error' # "none"
       THEN stream' = st /\ body' = body
       ELSE /\ stream' = [c.stream EXCEPT !.pushed = c.pushed]
            /\ body' = c.body

StreamNext ==
    \/ Request("GET", "none", "none", FALSE, MaxRedirectsBound, FALSE)
    \/ \E p \in FeedsOf(parser, StreamHeads), consumed \in BOOLEAN :
         \E frag \in (IF p.hc /\ consumed THEN BOOLEAN ELSE {FALSE}) :
            /\ stream.n < MaxDeliveries
            /\ DataReceived(p, consumed, FALSE)
            /\ data_processed(frag)
            /\ UNCHANGED <<applied, suite>>
    \/ connection
    \/ \E kind \in {"iter", "read"} : BeginPass(kind)
    \/ \E i \in 1..MaxPasses : NextChunk(i)
    \/ \E i \in 1..MaxPasses : Get(i)
    \/ StreamRecvBody
    \/ Close

StreamSpec == Init /\ [][StreamNext]_vars

\* The caller of read() awaits every future it is yielded and asks for the
\* next chunk until the iteration ends, and the loop runs every
\* queue.get() that can take a chunk.
StreamFairSpec ==
    /\ StreamSpec
    /\ \A i \in 1..MaxPasses : WF_vars(Get(i)) /\ WF_vars(NextChunk(i))

(***************************************************************************)
(* HttpRequest.encode applied to the requests a client builds              *)
(***************************************************************************)

EncodeMethods == {"GET", "HEAD", "POST", "PUT"}

\* The requests that are encoded: without data, with empty data, with
\* data of one and of two bytes and with the data "a=1", for a url without
\* and with a query; built by a call, or for a redirect hop with the
\* headers of a previous request whose body was one byte.
EncodeRequests ==
    { [ HttpRequest(m, [URL0 EXCEPT !.query = q], hs, d, "none", <<>>, a,
                    MaxRedirectsBound, w)
        EXCEPT !.content_length = IF hs = {} THEN -1 ELSE 1 ] :
        m \in EncodeMethods, d \in {"none", "", "d", "dd", "a=1"}, w \in BOOLEAN,
        a \in BOOLEAN, hs \in { {}, {"content-length", "expect"} },
        q \in {"", "b=2"} }

\* No bytes encoded yet
NoBytes == [line |-> <<>>, headers |-> {}, expect |-> FALSE, sent |-> "none"]

\* The bytes encode() returned
Bytes(enc) ==
    [line |-> enc.line, headers |-> enc.headers, expect |-> enc.expect, sent |-> enc.sent]

EncodeInit ==
    /\ hop = 0
    /\ request = NoRequest
    /\ parser = new_parser
    /\ hcache = NoCache
    /\ transport = <<>>
    /\ fired = <<>>
    /\ phase = "idle"
    /\ error = "none"
    /\ upgraded = NoUpgrade
    /\ last = NoStep
    /\ jar = NoCookies
    /\ store_cookies = TRUE
    /\ body = <<>>
    /\ stream = NoStream
    /\ applied \in { [ op |-> "request", request |-> r, expect |-> FALSE,
                        sent |-> "none", encoded |-> r, bytes |-> NoBytes,
                        first |-> NoBytes ] :
                       r \in EncodeRequests }
    /\ suite = NoSuite
    /\ histories = <<>>

\* request.encode(), as HttpResponse.start_request calls it
Encode ==
    /\ applied.op = "request"
    /\ LET enc == encode(applied.request)
       IN applied' = [ op |-> "encode", request |-> enc.request,
                       expect |-> enc.expect, sent |-> enc.sent,
                       encoded |-> enc.request, bytes |-> Bytes(enc),
                       first |-> Bytes(enc) ]
    /\ UNCHANGED <<hop, request, parser, hcache, transport, fired, phase, error,
                   upgraded, last, jar, store_cookies, body, stream, suite, histories>>

\* request.encode() called again on a request that was encoded; encoded is
\* the request as the first encode() left it and first the bytes it gave.
EncodeAgain ==
    /\ applied.op = "encode"
    /\ LET enc == encode(applied.request)
       IN applied' = [ op |-> "encode_again", request |-> enc.request,
                       expect |-> enc.expect, sent |-> enc.sent,
                       encoded |-> applied.request, bytes |-> Bytes(enc),
                       first |-> applied.first ]
    /\ UNCHANGED <<hop, request, parser, hcache, transport, fired, phase, error,
                   upgraded, last, jar, store_cookies, body, stream, suite, histories>>

EncodeNext == Encode \/ EncodeAgain

EncodeSpec == EncodeInit /\ [][EncodeNext]_vars

(***************************************************************************)
(* HttpResponse.raise_for_status applied to the states of a consumer       *)
(***************************************************************************)

\* pulsar.utils.httpurl.is_succesful
is_succesful(status) == status >= 200 /\ status < 300

\* bytes.decode('utf-8', 'strict') for sequences of one and two bytes: the
\* code points, or the failure to decode
RECURSIVE utf8_decode(_)
utf8_decode(b) ==
    IF b = <<>>
    THEN [ok |-> TRUE, text |-> <<>>]
    ELSE IF b[1] < 128
    THEN LET r == utf8_decode(Tail(b))
         IN [ok |-> r.ok, text |-> <<b[1]>> \o r.text]
    ELSE IF b[1] >= 194 /\ b[1] <= 223 /\ Len(b) >= 2 /\ b[2] >= 128 /\ b[2] <= 191
    THEN LET r == utf8_decode(SubSeq(b, 3, Len(b)))
         IN [ok |-> r.ok, text |-> <<(b[1] - 192) * 64 + (b[2] - 128)>> \o r.text]
    ELSE [ok |-> FALSE, text |-> <<>>]

\* HttpResponse.get_content(): the parser's body is flushed and, when it
\* has bytes or _content is None (has is false), added to _content, which
\* is returned
get_content(held, has, content) ==
    LET b == recv_body(held)
    IN [ content |-> IF b.data # <<>> \/ ~has
                     THEN IF has /\ content # <<>> THEN content \o b.data
                          ELSE b.data
                     ELSE content,
         body |-> b.body ]

\* HttpResponse.content_string(): get_content() decoded as utf-8, strict
content_string(content) ==
    LET r == utf8_decode(content)
    IN IF r.ok THEN [raise |-> "none", text |-> r.text]
       ELSE [raise |-> "UnicodeDecodeError", text |-> <<>>]

\* HttpResponse.is_error. status 0: status_code is None; fut: the state of
\* on_finished, "pending", "result" or "failure"
is_error(status, fut) ==
    IF status # 0 THEN ~is_succesful(status)
    ELSE IF fut # "pending" THEN fut = "failure"
    ELSE FALSE

\* raise_for_status raised nothing
NoRaise == [raise |-> "none", url |-> NoURL, code |-> 0, msg |-> <<>>, hdrs |-> NoHeaders]

\* HttpResponse.raise_for_status(): the exception raised and, for
\* HTTPError, its url, code, msg and hdrs
raise_for_status(url, status, content, view, fut) ==
    IF is_error(status, fut)
    THEN IF status # 0
         THEN LET t == content_string(content)
              IN IF t.raise # "none"
                 THEN [NoRaise EXCEPT !.raise = t.raise]
                 ELSE [raise |-> "HTTPError", url |-> url, code |-> status,
                       msg |-> t.text, hdrs |-> view]
         ELSE [NoRaise EXCEPT !.raise = "URLError"]
    ELSE NoRaise

\* raise_for_status: whether self.content_string() is evaluated
ReadsContent(status, fut) == is_error(status, fut) /\ status # 0

\* The states of a consumer its methods are called in: has tells that
\* _content is not None and content is _content. Without a status (0) the
\* future is pending or failed and there is no content.
ConsumerStates ==
    { c \in [ status : {0, 101, 200, 204, 302, 404, 500},
              fut : {"pending", "result", "failure"},
              has : BOOLEAN,
              content : { <<>>, <<111>>, <<195>> },
              view : {NoHeaders, WithConnection("close")} ] :
        /\ c.status = 0 => c.fut # "result" /\ ~c.has /\ c.view = NoHeaders
        /\ ~c.has => c.content = <<>> }

\* The bodies the parser holds when a method is called: nothing, ASCII
\* bytes, the second byte of a UTF-8 sequence, an ISO-8859-1 byte
HeldBodies == { <<>>, <<107>>, <<111, 107>>, <<169>>, <<233>> }

StatusInit ==
    /\ hop = 0
    /\ request = NoRequest
    /\ parser = new_parser
    /\ hcache = NoCache
    /\ transport = <<>>
    /\ fired = <<>>
    /\ phase = "idle"
    /\ error = "none"
    /\ upgraded = NoUpgrade
    /\ last = NoStep
    /\ jar = NoCookies
    /\ store_cookies = TRUE
    /\ stream = NoStream
    /\ applied \in { [ op |-> "response", url |-> URL0, c |-> c, out |-> NoRaise,
                        data |-> <<>> ] : c \in ConsumerStates }
    /\ body \in {b \in HeldBodies : applied.c.status = 0 => b = <<>>}
    /\ suite = NoSuite
    /\ histories = <<>>

\* response.raise_for_status(), called by the caller; data is what
\* get_content() returned when content_string() was evaluated
RaiseForStatus ==
    /\ applied.op # "raise_for_status"
    /\ LET c == applied.c
           reads == ReadsContent(c.status, c.fut)
           g == get_content(body, c.has, c.content)
       IN /\ applied' = [applied EXCEPT
                           !.op = "raise_for_status",
                           !.out = raise_for_status(applied.url, c.status, g.content,
                                                    c.view, c.fut),
                           !.c.has = IF reads THEN TRUE ELSE @,
                           !.c.content = IF reads THEN g.content ELSE @,
                           !.data = IF reads THEN g.content ELSE <<>>]
          /\ body' = IF reads THEN g.body ELSE body
    /\ UNCHANGED <<hop, request, parser, hcache, transport, fired, phase, error,
                   upgraded, last, jar, store_cookies, stream, suite, histories>>

\* response.recv_body(), called by the caller
RecvBody ==
    /\ applied.op \in {"response", "get_content"}
    /\ LET b == recv_body(body)
       IN /\ applied' = [applied EXCEPT !.op = "recv_body", !.out = NoRaise,
                                        !.data = b.data]
          /\ body' = b.body
    /\ UNCHANGED <<hop, request, parser, hcache, transport, fired, phase, error,
                   upgraded, last, jar, store_cookies, stream, suite, histories>>

\* response.get_content(), called by the caller
GetContent ==
    /\ applied.op \in {"response", "recv_body"}
    /\ LET g == get_content(body, applied.c.has, applied.c.content)
       IN /\ applied' = [applied EXCEPT !.op = "get_content", !.out = NoRaise,
                                        !.c.has = TRUE, !.c.content = g.content,
                                        !.data = g.content]
          /\ body' = g.body
    /\ UNCHANGED <<hop, request, parser, hcache, transport, fired, phase, error,
                   upgraded, last, jar, store_cookies, stream, suite, histories>>

\* response.content_string(), called by the caller
ContentString ==
    /\ applied.op \in {"response", "recv_body", "get_content"}
    /\ LET g == get_content(body, applied.c.has, applied.c.content)
           t == content_string(g.content)
       IN /\ applied' = [applied EXCEPT !.op = "content_string",
                                        !.out = [NoRaise EXCEPT !.raise = t.raise,
                                                                !.msg = t.text],
                                        !.c.has = TRUE, !.c.content = g.content,
                                        !.data = g.content]
          /\ body' = g.body
    /\ UNCHANGED <<hop, request, parser, hcache, transport, fired, phase, error,
                   upgraded, last, jar, store_cookies, stream, suite, histories>>

StatusNext == RaiseForStatus \/ RecvBody \/ GetContent \/ ContentString

StatusSpec == StatusInit /\ [][StatusNext]_vars

(***************************************************************************)
(* HttpRequest.scheme, address and key, without and with a proxy           *)
(***************************************************************************)

\* The schemes of urls and of proxies, and their characters (code points)
Schemes == {"http", "https", "ws", "wss"}

ProxySchemes == {"http", "https"}

codes(s) ==
    CASE s = "http" -> <<104, 116, 116, 112>>
      [] s = "https" -> <<104, 116, 116, 112, 115>>
      [] s = "ws" -> <<119, 115>>
      [] s = "wss" -> <<119, 115, 115>>
      [] OTHER -> <<>>

\* a < b for two str: the first character that differs decides, and a
\* proper prefix is smaller
RECURSIVE str_less(_, _)
str_less(a, b) ==
    IF a = <<>> THEN b # <<>>
    ELSE IF b = <<>> THEN FALSE
    ELSE IF a[1] # b[1] THEN a[1] < b[1]
    ELSE str_less(Tail(a), Tail(b))

\* A scheme property that takes the smaller of the two schemes
min(a, b) == IF str_less(codes(b), codes(a)) THEN b ELSE a

\* max(a, b) of two str: b when it is greater than a, else a
max(a, b) == IF str_less(codes(a), codes(b)) THEN b ELSE a

\* pulsar.utils.httpurl.get_hostport(scheme, netloc): the host and the port
\* of a netloc, the port being that of the scheme when the netloc gives
\* none (port 0)
get_hostport(s, netloc) ==
    [ host |-> netloc.host,
      port |-> IF netloc.port # 0 THEN netloc.port
               ELSE IF s \in {"https", "wss"} THEN 443
               ELSE 80 ]

\* pulsar.utils.httpurl.scheme_host(scheme, host), a named tuple; NoProxy
\* stands for None
NoProxy == [set |-> FALSE, scheme |-> "", netloc |-> [host |-> "", port |-> 0]]

scheme_host(s, host) == [set |-> TRUE, scheme |-> s, netloc |-> host]

\* HttpRequest.__init__, as far as scheme, address and key read it: _scheme
\* and _netloc of the url, host_only and port, timeout and no proxy
OriginRequest(s, netloc, timeout) ==
    [ _scheme |-> s, _netloc |-> netloc,
      host_only |-> get_hostport(s, netloc).host,
      port |-> get_hostport(s, netloc).port,
      timeout |-> timeout, _proxy |-> NoProxy ]

\* HttpRequest.set_proxy(scheme, host)
set_proxy(r, s, host) ==
    [r EXCEPT !.host_only = get_hostport(s, host).host,
              !.port = get_hostport(s, host).port,
              !._proxy = scheme_host(s, host)]

\* HttpRequest.scheme
scheme(r) == IF r._proxy.set THEN max(r._scheme, r._proxy.scheme) ELSE r._scheme

\* HttpRequest.address
address(r) == <<r.host_only, r.port>>

\* HttpRequest.key
key(r) == <<scheme(r), address(r), r.timeout>>

\* The netlocs of urls and of proxies: with and without a port
Netlocs == { [host |-> h, port |-> p] : h \in {"a", "b"}, p \in {0, 8080} }

ProxyNetlocs == { [host |-> "proxy", port |-> p] : p \in {0, 3128} }

ProxyInit ==
    /\ hop = 0
    /\ request = NoRequest
    /\ parser = new_parser
    /\ hcache = NoCache
    /\ transport = <<>>
    /\ fired = <<>>
    /\ phase = "idle"
    /\ error = "none"
    /\ upgraded = NoUpgrade
    /\ last = NoStep
    /\ jar = NoCookies
    /\ store_cookies = TRUE
    /\ body = <<>>
    /\ stream = NoStream
    /\ applied \in { [ op |-> "request", origin |-> OriginRequest(s, n, t),
                        r |-> OriginRequest(s, n, t) ] :
                       s \in Schemes, n \in Netlocs, t \in {0, 5} }
    /\ suite = NoSuite
    /\ histories = <<>>

\* request.set_proxy(scheme, host), as HttpClient.set_proxy calls it with
\* the scheme and the netloc of the proxy url
SetProxy(s, host) ==
    /\ applied.op = "request"
    /\ applied' = [applied EXCEPT !.op = "set_proxy", !.r = set_proxy(applied.r, s, host)]
    /\ UNCHANGED <<hop, request, parser, hcache, transport, fired, phase, error,
                   upgraded, last, jar, store_cookies, body, stream, suite, histories>>

ProxyNext == \E s \in ProxySchemes, host \in ProxyNetlocs : SetProxy(s, host)

ProxySpec == ProxyInit /\ [][ProxyNext]_vars

(***************************************************************************)
(* The Runner of a test suite: its task, the coroutines of the classes and *)
(* of the tests, and _check_done, as the loop runs them                    *)
(***************************************************************************)

\* The variables of the HTTP client, which a Runner leaves alone
client_vars ==
    <<hop, request, parser, hcache, transport, fired, phase, error, upgraded, last,
      jar, store_cookies, body, stream, applied, histories>>

\* Runner(monitor, runner, tests), for cfg.sequential false and true
RunnerInit ==
    /\ hop = 0
    /\ request = NoRequest
    /\ parser = new_parser
    /\ hcache = NoCache
    /\ transport = <<>>
    /\ fired = <<>>
    /\ phase = "idle"
    /\ error = "none"
    /\ upgraded = NoUpgrade
    /\ last = NoStep
    /\ jar = NoCookies
    /\ store_cookies = TRUE
    /\ body = <<>>
    /\ stream = NoStream
    /\ applied = NoApplication
    /\ suite \in { Runner(tests, sequential) :
                     tests \in TestLists, sequential \in BOOLEAN }
    /\ histories = <<>>

\* The task _run_all_tests begins
RunAllTests ==
    /\ ~suite.started
    /\ suite' = _run_all_tests([suite EXCEPT !.started = TRUE])
    /\ UNCHANGED client_vars

\* The loop begins the task made of the coroutine of class c
RunTestClass(c) ==
    /\ c \in DOMAIN suite.cpc
    /\ ~suite.sequential
    /\ suite.cpc[c] = "pending"
    /\ c \in suite.concurrent
    /\ suite' = _run_testcls(suite, c)
    /\ UNCHANGED client_vars

\* setUpClass of class c completes, with an exception when raised
SetUpClassDone(c, raised) ==
    /\ c \in DOMAIN suite.cpc
    /\ suite.cpc[c] = "setUpClass"
    /\ suite' = setUpClass_done(suite, c, raised)
    /\ UNCHANGED client_vars

\* The coroutine of class c goes on after it released the loop
TestsBegin(c) ==
    /\ c \in DOMAIN suite.cpc
    /\ suite.cpc[c] = "released"
    /\ suite' = tests_begin(suite, c)
    /\ UNCHANGED client_vars

\* The task asyncio.wait made of the coroutine of test j of class c begins
RunTest(c, j) ==
    /\ c \in DOMAIN suite.cpc
    /\ j \in DOMAIN suite.t[c]
    /\ ~seq(suite, c)
    /\ suite.cpc[c] = "tests"
    /\ suite.t[c][j].pc = "new"
    /\ suite' = _run_test(suite, c, j)
    /\ UNCHANGED client_vars

\* setUp, the test function or tearDown of test j of class c completes,
\* with an exception when raised
MethodDone(c, j, raised) ==
    /\ c \in DOMAIN suite.cpc
    /\ j \in DOMAIN suite.t[c]
    /\ suite.t[c][j].pc \in {"setUp", "test", "tearDown"}
    /\ suite' = _run_test_resumed(suite, c, j, raised)
    /\ UNCHANGED client_vars

\* The coroutine of test j of class c goes on after it released the loop
TestEnded(c, j) ==
    /\ c \in DOMAIN suite.cpc
    /\ j \in DOMAIN suite.t[c]
    /\ suite.t[c][j].pc = "released"
    /\ suite' = _run_test_ended(suite, c, j)
    /\ UNCHANGED client_vars

\* asyncio.wait is done with the tests of class c
TestsDone(c) ==
    /\ c \in DOMAIN suite.cpc
    /\ ~seq(suite, c)
    /\ suite.cpc[c] = "tests"
    /\ \A j \in DOMAIN suite.t[c] : suite.t[c][j].pc = "finished"
    /\ suite' = tearDownClass(suite, c)
    /\ UNCHANGED client_vars

\* tearDownClass of class c completes, with an exception when raised
TearDownClassDone(c, raised) ==
    /\ c \in DOMAIN suite.cpc
    /\ suite.cpc[c] = "tearDownClass"
    /\ suite' = tearDownClass_done(suite, c, raised)
    /\ UNCHANGED client_vars

\* The loop calls _check_done
CheckDone ==
    /\ ~suite.ended
    /\ suite' = _check_done(suite)
    /\ UNCHANGED client_vars

\* The loop calls _exit, which raises HaltServer
Exit ==
    /\ suite.exiting
    /\ suite' = [suite EXCEPT !.exiting = FALSE, !.halted = TRUE]
    /\ UNCHANGED client_vars

RunnerNext ==
    \/ RunAllTests
    \/ \E c \in 1..MaxClasses : RunTestClass(c)
    \/ \E c \in 1..MaxClasses, raised \in BOOLEAN : SetUpClassDone(c, raised)
    \/ \E c \in 1..MaxClasses : TestsBegin(c)
    \/ \E c \in 1..MaxClasses, j \in 1..MaxTests : RunTest(c, j)
    \/ \E c \in 1..MaxClasses, j \in 1..MaxTests, raised \in BOOLEAN :
            MethodDone(c, j, raised)
    \/ \E c \in 1..MaxClasses, j \in 1..MaxTests : TestEnded(c, j)
    \/ \E c \in 1..MaxClasses : TestsDone(c)
    \/ \E c \in 1..MaxClasses, raised \in BOOLEAN : TearDownClassDone(c, raised)
    \/ CheckDone
    \/ Exit

RunnerSpec == RunnerInit /\ [][RunnerNext]_vars

\* The loop is fair: a coroutine that can go on does, and a callback that
\* was scheduled is called
RunnerFairSpec == RunnerInit /\ [][RunnerNext]_vars /\ WF_vars(RunnerNext)

(***************************************************************************)
(* Properties                                                              *)
(***************************************************************************)

\* The step that led to this state was a delivery to the consumer
Delivered == last.op = "data_received"

\* The delivery that led to this state started the next hop
HopStarted == Delivered /\ hop = last.hop + 1

\* The response that was being parsed in the last delivery carried a
\* Location header / a redirect status
ResponseHasLocation == last.p.headers.location.kind # "none"

ResponseIsRedirect == last.p.hc /\ last.p.status \in REDIRECT_CODES

\* The caller called close() on the consumer in charge after its message
\* was complete
Closed == last.op = "close"

\* C1: over the deliveries of one logical call (the caller has not called
\* close() on the consumer) the caller-visible completion future is fired
\* at most once, and exactly once when the call is done; it is fired by the
\* consumer in charge of the last hop, in a delivery that completed the
\* message and took no redirect, continue or upgrade branch; a hop whose
\* response is in the history (it was followed as a redirect) and a hop
\* that was upgraded never fire it.
C1_FutureResolvedOnce ==
    ~Closed
    => /\ Len(fired) <= 1
       /\ phase = "done" <=> Len(fired) = 1
       /\ \A i \in DOMAIN fired :
             /\ fired[i].by = hop
             /\ fired[i].result = "self"
             /\ \A j \in DOMAIN request.history : request.history[j].hop # fired[i].by
             /\ last.hop = hop /\ last.branch = "none" /\ last.p.mc
       /\ phase = "upgraded" => fired = <<>>

\* C1 witness: a call that followed two redirects, was told to continue on
\* the last hop and is done
C1_Witness ==
    /\ phase = "done"
    /\ hop = 3
    /\ BodyWrites >= 1
    /\ Len(fired) = 1

\* C2: when a response arrives that is a followable redirect (redirect
\* status, Location header, allow_redirects, message complete when its
\* headers are handled), data_received raises TooManyRedirects if and only
\* if the history of the request already has max_redirects entries, and
\* after the failure no request is issued.
C2_TooManyRedirectsIff ==
    /\ Delivered /\ last.ok /\ last.handled /\ ResponseIsRedirect
         /\ ResponseHasLocation /\ last.request.allow_redirects /\ last.p.mc
       => (error = "TooManyRedirects"
             <=> Len(last.request.history) >= last.request.max_redirects)
    /\ error = "TooManyRedirects"
       => /\ phase = "failed"
          /\ hop = last.hop
          /\ Len(last.request.history) = last.request.max_redirects

\* The history of the current request after N followed redirects: N
\* entries, N within max_redirects, the i-th being the response of hop i
HistoryInOrder ==
    phase # "idle" =>
        /\ Len(request.history) = hop - 1
        /\ Len(request.history) <= request.max_redirects
        /\ \A i \in DOMAIN request.history : request.history[i].hop = i

\* C3: after N redirects were followed the history of the current request
\* has N entries, N within max_redirects, the i-th being the response of
\* hop i; the redirect response that was followed carries a Location
\* header, and the full url of the request of the new hop is that Location
\* resolved against the full url of the request it answered: an absolute
\* url, the Location itself when that is absolute; and it stays so.
C3_HistoryInOrder ==
    /\ []HistoryInOrder
    /\ [][/\ hop >= 1 /\ hop' = hop + 1
             => LET location == last'.p.headers.location
                IN /\ location.kind # "none"
                   /\ request'.full_url
                        = RedirectUrl(last'.request.full_url, location)
                   /\ request'.full_url.netloc # ""
                   /\ request'.full_url.scheme # ""
                   /\ location.kind = "abs"
                      => /\ request'.full_url.scheme = location.scheme
                         /\ request'.full_url.netloc = location.netloc
                         /\ request'.full_url.path = location.path
          /\ hop >= 1 /\ hop' = hop => request'.full_url = request.full_url]_vars

\* C3 without the query: the scheme, host and path of the full url of the
\* request of a new hop are those of the Location of the redirect response
\* that was followed, resolved against the full url of the request it
\* answered.
C3_TargetIsResponseLocation ==
    [][hop >= 1 /\ hop' = hop + 1
       => /\ last'.p.headers.location.kind # "none"
          /\ [request'.full_url EXCEPT !.query = ""]
               = RedirectUrl(last'.request.full_url, last'.p.headers.location)]_vars

\* What is left of C3 when the consumer's headers view is the header set of
\* the redirect response (no status-100 response came before it on the
\* hop): the history is in order, and the full url of the request of a new
\* hop is the resolved Location of that response with, as query, the
\* fields of the data carried from the previous request when the method
\* puts its data in the url, and no query otherwise.
C3_HistoryAndFoldedUrl ==
    /\ []HistoryInOrder
    /\ [][/\ hop >= 1 /\ hop' = hop + 1 /\ last'.view = last'.p.headers
             => LET location == last'.p.headers.location
                    carried == IF last'.is303 THEN "none" ELSE last'.request.data
                    fields == IF request'.method \in ENCODE_URL_METHODS
                                 /\ carried # "none"
                              THEN carried ELSE ""
                IN /\ location.kind # "none"
                   /\ request'.full_url
                        = [RedirectUrl(last'.request.full_url, location)
                             EXCEPT !.query = fields]
                   /\ request'.full_url.netloc # ""
                   /\ request'.full_url.scheme # ""
                   /\ location.kind = "abs"
                      => /\ request'.full_url.scheme = location.scheme
                         /\ request'.full_url.netloc = location.netloc
                         /\ request'.full_url.path = location.path
          /\ hop >= 1 /\ hop' = hop => request'.full_url = request.full_url]_vars

\* C3 witness: two redirects followed by a GET with the data "a=1", the
\* second to an absolute Location
C3_Witness ==
    /\ hop = 3
    /\ phase = "done"
    /\ Len(request.history) = 2
    /\ request.method = "GET"
    /\ request.full_url = [scheme |-> "https", netloc |-> "b", path |-> "/y", query |-> "a=1"]

\* C4: for a request whose body was withheld (wait_continue), the consumer
\* writes the body at most once, on its own connection, however many
\* status-100 responses arrive, and sends the request (with its Expect
\* header) once.
C4_OneBodyTransmission ==
    /\ request.wait_continue /\ request.body \notin {"none", "unset"}
       => BodyWrites <= 1
    /\ \A i \in DOMAIN transport : transport[i].conn = hop
    /\ Cardinality({i \in DOMAIN transport : transport[i].kind = "request"}) <= 1

\* C5: the hop that follows a 303 response is a GET without the data and
\* files of the previous request; after another redirect status method,
\* data and files are those of the previous request.
C5_SeeOtherBecomesGet ==
    HopStarted =>
        IF last.p.status = 303
        THEN /\ request.method = "GET"
             /\ request.data = "none"
             /\ request.files = "none"
             /\ request.body = "none"
        ELSE /\ request.method = last.request.method
             /\ request.data = last.request.data
             /\ request.files = last.request.files

\* C6: a delivery starts a new hop only if it handled the headers of a
\* response with a redirect status and a Location header, of a request
\* that allows redirects, and the message was complete; a complete 3xx
\* response that misses one of these, also when its body was completed by a
\* later delivery, starts no hop and finishes the consumer with itself as
\* the result.
C6_RedirectOnlyWhenComplete ==
    /\ HopStarted
       => /\ last.handled
          /\ ResponseIsRedirect
          /\ ResponseHasLocation
          /\ last.request.allow_redirects
          /\ last.p.mc
    /\ /\ Delivered /\ last.ok /\ ResponseIsRedirect /\ last.p.mc
       /\ ~(last.handled /\ ResponseHasLocation /\ last.request.allow_redirects)
       => /\ hop = last.hop
          /\ phase = "done"
          /\ fired = <<[by |-> hop, result |-> "self"]>>

\* C7: a delivery after which the message is complete and that took none
\* of the redirect, continue and upgrade branches marks the request
\* finished and fires the completion future with the consumer as result;
\* the future is not fired while the message is incomplete.
C7_FiresAtMessageComplete ==
    /\ Delivered /\ last.ok /\ last.p.mc /\ last.branch = "none"
       => /\ phase = "done"
          /\ last.evalmc
          /\ request.finished
          /\ fired = <<[by |-> last.hop, result |-> "self"]>>
    /\ fired # <<>> => parser.hc /\ parser.mc /\ last.p.mc

\* C7 witness: a 200 response whose body was completed by a later delivery
C7_Witness ==
    /\ phase = "done"
    /\ last.p.status = 200
    /\ ~last.handled
    /\ Len(fired) = 1

\* C8: a delivery of which the parser consumed less than it was given
\* raises ProtocolError; it handles no headers, takes no redirect, continue
\* or upgrade branch, does not test for completion and does not fire the
\* completion future.
C8_ShortFeedFails ==
    Delivered /\ ~last.ok
    => /\ error = "ProtocolError"
       /\ phase = "failed"
       /\ ~last.handled
       /\ last.branch = "none"
       /\ ~last.evalmc
       /\ hop = last.hop
       /\ ~request.finished
       /\ upgraded = NoUpgrade
       /\ fired = <<>>

\* C8 witness: the parser reports a complete 302 response with a Location,
\* for a request that allows redirects, and consumed less than it was given
C8_Witness ==
    /\ Delivered /\ ~last.ok
    /\ last.p.mc /\ last.p.status = 302 /\ ResponseHasLocation
    /\ request.allow_redirects
    /\ error = "ProtocolError"

\* C9: for a 101 response with an Upgrade header, upgrade raises
\* ProtocolError when there is no handler named after the header value and
\* otherwise calls the handler of that name with the connection and the
\* consumer.
C9_UpgradeByHeaderName ==
    Delivered /\ last.branch = "upgrade" /\ last.p.headers.upgrade # "none"
    => IF last.p.headers.upgrade \in UpgradeHandlers
       THEN /\ error = "none"
            /\ upgraded = [ raise |-> "none", handler |-> last.p.headers.upgrade,
                            connection |-> last.hop, consumer |-> last.hop ]
       ELSE /\ error = "ProtocolError"
            /\ upgraded = NoUpgrade

\* C10: once a 101 response was handed to an upgrade handler the consumer
\* has returned from the delivery without testing for completion, and
\* whatever is called on it afterwards, close() included, it does not fire
\* the completion future with itself as result, does not mark the request
\* finished, and reads and writes nothing on the connection.
C10_NothingAfterHandoff ==
    /\ [](phase = "upgraded"
          => /\ last.branch = "upgrade" /\ last.p.status = 101
             /\ upgraded.consumer = hop /\ upgraded.connection = hop
             /\ last.returned
             /\ ~last.evalmc
             /\ ~request.finished
             /\ fired = <<>>)
    /\ [](upgraded # NoUpgrade => phase = "upgraded")
    /\ [][phase = "upgraded"
           => UNCHANGED <<parser, transport, fired, request>>]_vars

\* The part of C10 that is about the delivery of the 101 response: when it
\* has handed the connection to the handler, data_received has returned
\* without testing for completion, the future is not fired and the request
\* is not marked finished.
C10_ReturnsAtHandoff ==
    phase = "upgraded" /\ ~Closed
    => /\ last.branch = "upgrade" /\ last.p.status = 101
       /\ upgraded.consumer = hop /\ upgraded.connection = hop
       /\ last.returned
       /\ ~last.evalmc
       /\ ~request.finished
       /\ fired = <<>>

\* The consumer fired the completion future with itself as result in a
\* close() that followed the handoff of a complete 101 response
C10_FiredAfterHandoff ==
    /\ phase = "upgraded"
    /\ Closed
    /\ upgraded.handler = "websocket"
    /\ fired = <<[by |-> hop, result |-> "self"]>>

\* C24: a delivery runs _handle_headers if and only if the parser accepted
\* the bytes and reports its headers complete after it and did not before
\* it, so once for a parser and never in a later delivery to that parser;
\* the handling comes before the test of message completion: when it
\* returns a new response the completion is not tested and the future not
\* fired in that delivery, and otherwise it is tested in the same delivery.
C24_HeadersHandledOnce ==
    [][phase = "active"
       => /\ last'.op = "data_received"
          /\ last'.handled <=> (last'.ok /\ ~parser.hc /\ last'.p.hc)
          /\ parser.hc => ~last'.handled /\ last'.branch = "none"
          /\ last'.handled /\ last'.returned
             => ~last'.evalmc /\ fired' = fired
          /\ last'.handled /\ ~last'.returned /\ error' = "none"
             => /\ last'.evalmc
                /\ last'.p.mc <=> fired' # fired]_vars

\* C24 witness: after a status-100 response gave the request a new parser,
\* the headers of the final response were handled in one delivery and the
\* message was completed by a later one, which handled nothing
C24_Witness ==
    /\ BodyWrites = 1
    /\ Delivered /\ last.ok /\ ~last.handled
    /\ parser.hc /\ parser.mc
    /\ parser.status = 200
    /\ phase = "done"

\* C26: the headers view of the consumer is that of the response its
\* parser holds, also after a status-100 response gave the request a new
\* parser: the view _handle_headers decides with is the headers of the
\* response that arrived, and a redirect is taken only for a response that
\* carries a Location header.
C26_HeadersViewOfFinalResponse ==
    /\ Delivered /\ last.handled => last.view = last.p.headers
    /\ phase \in {"active", "done"} /\ parser.hc
       => headers(hcache, parser) = parser.headers
    /\ Delivered /\ last.branch = "redirect" => ResponseHasLocation

\* C27: the body of a request is written to its connection at most once,
\* by encode() or after a status-100 response; for a request encoded
\* without wait_continue, and for one without a body, a status-100
\* response makes the consumer write nothing.
C27_BodyWrittenAtMostOnce ==
    /\ Cardinality({i \in DOMAIN transport : Truthy(transport[i].body)}) <= 1
    /\ phase # "idle" /\ (~request.wait_continue \/ ~Truthy(request.body))
       => BodyWrites = 0

\* C23: in every state of a logical call the history of the current
\* request has as many entries as redirects were followed so far, and not
\* more than max_redirects; the request of the hop before a new one had one
\* entry less, fewer than max_redirects, and the same max_redirects.
C23_HistoryLengthBounded ==
    /\ phase # "idle"
       => /\ Len(request.history) = hop - 1
          /\ Len(request.history) <= request.max_redirects
    /\ HopStarted
       => /\ Len(last.request.history) = Len(request.history) - 1
          /\ Len(last.request.history) < last.request.max_redirects
          /\ request.max_redirects = last.request.max_redirects

\* C23 witness: after max_redirects = 2 redirects were followed a third one
\* was refused
C23_Witness ==
    /\ hop = 3
    /\ Len(request.history) = 2
    /\ request.max_redirects = 2
    /\ error = "TooManyRedirects"

\* The responses of the hops before hop i, in order: what the history of
\* the request of hop i held when the request was built
HistoryOfHop(i) == [j \in 1..(i - 1) |-> [hop |-> j]]

\* C31: starting a redirect hop leaves the history list of every earlier
\* request of the chain as it was, and the new request holds a copy of the
\* previous request's history with the response appended; so in every
\* state the list of the request of hop i holds the responses of the hops
\* before i and no other.
C31_EarlierHistoriesKept ==
    /\ [](phase # "idle" =>
            /\ Len(histories) = hop
            /\ histories[hop] = request.history
            /\ \A i \in DOMAIN histories : histories[i] = HistoryOfHop(i))
    /\ [][phase = "active" /\ hop' = hop + 1 =>
            /\ \A i \in DOMAIN histories : histories'[i] = histories[i]
            /\ histories'[hop'] = Append(histories[hop], [hop |-> hop])
            /\ request'.history = histories'[hop']]_vars

\* C31 witness: a second redirect hop was started, and the requests of the
\* first and of the second hop still hold their own histories
C31_Witness ==
    /\ HopStarted
    /\ hop = 3
    /\ histories[1] = <<>>
    /\ histories[2] = <<[hop |-> 1]>>
    /\ histories[3] = <<[hop |-> 1], [hop |-> 2]>>

(***************************************************************************)
(* Properties of the client's connection reuse and cookie jar (ClientSpec) *)
(***************************************************************************)

\* The request of the state was built by the step that led to it
RequestBuilt == last.op = "request" \/ HopStarted

\* C11: for a finished response, can_reuse_connection is true if and only
\* if the response that was received carries Connection: keep-alive; it is
\* false without a response and for headers that are missing, lack the
\* Connection header or give it another value.
C11_ReuseIffKeepAlive ==
    /\ phase = "done"
       => (can_reuse_connection(TRUE, headers(hcache, parser))
             <=> parser.headers.connection = "keep-alive")
    /\ \A hs \in {h.headers : h \in ClientHeads} :
          /\ ~can_reuse_connection(FALSE, hs)
          /\ hs.connection # "keep-alive" => ~can_reuse_connection(TRUE, hs)
    /\ ~can_reuse_connection(TRUE, NoHeaders)

\* C12: with cookie storage enabled, after the headers of a response that
\* carries Set-Cookie were handled the jar holds that cookie for the host
\* of the request, and every request the client builds carries the cookie
\* the jar holds for its host.
C12_CookieRoundTrip ==
    /\ /\ Delivered /\ last.handled /\ store_cookies
       /\ last.p.headers.setcookie # "none"
       => jar[last.request.url.netloc] = last.p.headers.setcookie
    /\ RequestBuilt => request.cookie = jar[request.url.netloc]

\* C13: a step changes the jar only if cookie storage is enabled and the
\* response whose headers the step handled carries a Set-Cookie header;
\* with store_cookies false the jar stays as it was set up.
C13_JarChangedOnlyBySetCookie ==
    /\ [][jar' # jar => /\ store_cookies
                        /\ last'.p.hc
                        /\ last'.p.headers.setcookie # "none"]_vars
    /\ [](~store_cookies => jar = NoCookies)

\* C30: with cookie storage enabled, when a redirect response that
\* carries Set-Cookie is followed, the jar holds the cookie for the host
\* of the request that was answered, and the request of the new hop
\* carries it when it goes to that host.
C30_RedirectCarriesNewCookie ==
    /\ HopStarted /\ store_cookies
    /\ ResponseIsRedirect /\ last.p.headers.setcookie # "none"
    => /\ jar[last.request.url.netloc] = last.p.headers.setcookie
       /\ request.url.netloc = last.request.url.netloc
          => request.cookie = last.p.headers.setcookie

(***************************************************************************)
(* Properties of HttpStream (StreamSpec)                                   *)
(***************************************************************************)

\* A pass that ran __iter__ past its test of the connection
Started(ps) == ps.state \in {"running", "waiting", "ended"}

\* The pass begun last
LastPass == stream.passes[Len(stream.passes)]

\* The state of pass i, "none" before it begins
PassState(i) ==
    IF i \in DOMAIN stream.passes THEN stream.passes[i].state ELSE "none"

\* C14: once the exchange is done (the completion future was fired) and
\* the queue is drained no pass is left waiting for the future of a chunk;
\* a pass that ended did so with the exchange done and the queue drained;
\* and when the caller awaits every future and keeps asking, as read()
\* does, a pass that iterates once the exchange is done is given the
\* chunk it waits for and ends.
C14_IterationTerminates ==
    /\ [](done(fired) /\ stream.queue = <<>> => Waiting(stream.passes) = {})
    /\ []((\E i \in DOMAIN stream.passes : stream.passes[i].state = "ended")
          => done(fired))
    /\ [](stream.op \in {"begin", "next", "get"} /\ LastPass.state = "ended"
          => stream.queue = <<>>)
    /\ \A i \in 1..MaxPasses :
          /\ (done(fired) /\ PassState(i) = "waiting")
             ~> (PassState(i) = "running")
          /\ (done(fired) /\ PassState(i) \in {"running", "waiting"})
             ~> (PassState(i) = "ended")

\* A pass waits for the future of a chunk with the exchange done and the
\* queue drained: a delivery that the parser did not consume whole left
\* the message complete and raised, so that the stream was not called, and
\* the close() that followed fired the completion future
C14_WaitsAfterDone ==
    /\ done(fired)
    /\ stream.queue = <<>>
    /\ Waiting(stream.passes) # {}
    /\ Closed
    /\ error = "ProtocolError"

\* The part of C14 that is about an exchange whose future was fired by a
\* delivery (close() was not called on the response): no pass waits with
\* the exchange done and the queue drained, and a pass that ended did so
\* with the exchange done and the queue drained.
C14_TerminatesUnlessClosed ==
    ~Closed
    => /\ done(fired) /\ stream.queue = <<>> => Waiting(stream.passes) = {}
       /\ (\E i \in DOMAIN stream.passes : stream.passes[i].state = "ended")
          => done(fired)
       /\ stream.op \in {"begin", "next", "get"} /\ LastPass.state = "ended"
          => stream.queue = <<>>

\* C15: after a pass has started iterating the stream, every later
\* iteration of it fails with StreamConsumedError and yields nothing.
C15_NotRestartable ==
    \A i, j \in DOMAIN stream.passes :
        i < j /\ Started(stream.passes[i]) /\ stream.passes[j].kind = "iter"
        => /\ stream.passes[j].state = "raised"
           /\ stream.passes[j].got = <<>>

\* C15 witness: an iteration that yielded a chunk and ended, then a second
\* iteration that failed
C15_Witness ==
    /\ Len(stream.passes) = 2
    /\ stream.passes[1].kind = "iter"
    /\ stream.passes[1].state = "ended"
    /\ stream.passes[1].got # <<>>
    /\ stream.passes[2].kind = "iter"
    /\ stream.passes[2].state = "raised"

\* C16: an iteration begun on a stream that connection() was never called
\* on fails with StreamConsumedError, and leaves the queue and the body
\* the parser holds as they were: nothing is pushed and nothing consumed.
C16_NeverAttachedFails ==
    [][/\ Len(stream'.passes) = Len(stream.passes) + 1
       /\ stream'.passes[Len(stream'.passes)].kind = "iter"
       /\ ~stream.attached
       => /\ stream'.passes[Len(stream'.passes)].state = "raised"
          /\ stream'.passes[Len(stream'.passes)].got = <<>>
          /\ stream'.queue = stream.queue
          /\ body' = body]_vars

\* C16 witness: the iteration failed on a stream without connection whose
\* queue holds a chunk with a body fragment
C16_Witness ==
    /\ stream.op = "begin"
    /\ ~stream.attached
    /\ LastPass.kind = "iter" /\ LastPass.state = "raised"
    /\ \E k \in DOMAIN stream.queue : stream.queue[k] # <<>>

\* C17, as the claim states it: after a pass consumed the stream of a
\* finished response to its end, a second pass yields an empty sequence and
\* does not fail.
C17_SecondPassEmpty ==
    \A i, j \in DOMAIN stream.passes :
        i < j /\ stream.passes[i].state = "ended" /\ phase = "done"
        => /\ stream.passes[j].state \in {"ended", "empty"}
           /\ stream.passes[j].got = <<>>

\* C17, amended: after a pass consumed the stream to its end, a second
\* read() returns empty bytes and does not fail, while a second iteration
\* fails with StreamConsumedError; neither takes a chunk, and the stream
\* has no connection.
C17_SecondReadEmpty ==
    \A i, j \in DOMAIN stream.passes :
        i < j /\ stream.passes[i].state = "ended"
        => /\ stream.passes[j].kind = "read" => stream.passes[j].state = "empty"
           /\ stream.passes[j].kind = "iter" => stream.passes[j].state = "raised"
           /\ stream.passes[j].got = <<>>
           /\ stream.conn = "none"

\* C17 witness: a read() that returned the body, then a read() that
\* returned empty bytes
C17_Witness ==
    /\ Len(stream.passes) = 2
    /\ stream.passes[1].kind = "read"
    /\ stream.passes[1].state = "ended"
    /\ stream.passes[1].got # <<>>
    /\ stream.passes[2].kind = "read"
    /\ stream.passes[2].state = "empty"

\* C18: a delivery after which the headers are complete puts the body the
\* parser holds on the queue of the stream, whether or not a connection is
\* attached and whether or not iteration has begun, so that no body is
\* left with the parser.
C18_PushOnEveryDelivery ==
    stream.op = "delivery" /\ error = "none" /\ parser.hc
    => stream.pushed /\ body = <<>>

\* b''.join(chunks): the fragments of a sequence of chunks, in order
RECURSIVE join(_)
join(chunks) ==
    IF chunks = <<>> THEN <<>> ELSE Head(chunks) \o join(Tail(chunks))

\* C32: for a stream with a connection that is iterated, over the
\* deliveries and the steps of the iteration (the caller has not flushed
\* the parser with recv_body() itself), the chunks the pass was given, the
\* chunks on the queue and the body the parser holds are together the body
\* fragments the parser decoded, in arrival order, each once; when the
\* pass has reached its end its chunks alone are the decoded body.
C32_ChunksAreTheBody ==
    \A i \in DOMAIN stream.passes :
        Started(stream.passes[i]) /\ stream.taken = <<>>
        => /\ join(stream.passes[i].got) \o join(stream.queue) \o body
              = stream.decoded
           /\ stream.passes[i].state = "ended"
              => join(stream.passes[i].got) = stream.decoded

\* C32 witness: an iteration over a stream with a connection ended after
\* it yielded a chunk of two fragments, which the parser held until the
\* iteration began, and a chunk of one fragment that arrived later
C32_Witness ==
    /\ stream.attached
    /\ stream.taken = <<>>
    /\ \E i \in DOMAIN stream.passes :
          /\ stream.passes[i].kind = "iter"
          /\ stream.passes[i].state = "ended"
          /\ Len(stream.passes[i].got) >= 2
          /\ Len(stream.passes[i].got[1]) = 2
          /\ Len(stream.passes[i].got[Len(stream.passes[i].got)]) = 1
          /\ Len(stream.decoded) = 3

(***************************************************************************)
(* Properties of raise_for_status (StatusSpec) and of encode (EncodeSpec)  *)
(***************************************************************************)

\* C19: raise_for_status raises HTTPError with the url, the status code,
\* the decoded body and the headers when there is a status that is not a
\* success code, URLError when there is no status and the completion
\* future holds a failure, and nothing when the status is a success code
\* or the exchange is pending without a status.
C19_RaiseForStatus ==
    applied.op = "raise_for_status"
    => /\ applied.c.status # 0 /\ ~is_succesful(applied.c.status)
          => /\ applied.out.raise = "HTTPError"
             /\ applied.out.url = applied.url
             /\ applied.out.code = applied.c.status
             /\ applied.out.hdrs = applied.c.view
       /\ applied.c.status = 0 /\ applied.c.fut = "failure"
          => applied.out.raise = "URLError"
       /\ is_succesful(applied.c.status)
            \/ (applied.c.status = 0 /\ applied.c.fut = "pending")
          => applied.out.raise = "none"

\* C20: when the encoded body is present, encode() sets content-length to
\* the number of its bytes; with wait_continue the bytes it returns carry
\* Expect: 100-continue and no body, and the body stays with the request;
\* without wait_continue the body follows the headers. The body of a
\* request whose method takes one is its data.
C20_EncodeBodyAndExpect ==
    applied.op = "encode" /\ Truthy(applied.request.body)
    => /\ "content-length" \in applied.request.headers
       /\ applied.request.content_length = Len(applied.request.body)
       /\ applied.request.body = applied.request.data
       /\ IF applied.request.wait_continue
          THEN /\ applied.expect
               /\ applied.sent = "none"
          ELSE applied.sent = applied.request.body

\* C20 witness: a POST of two bytes with wait_continue was encoded
C20_Witness ==
    /\ applied.op = "encode"
    /\ applied.request.method = "POST"
    /\ applied.request.body = "dd"
    /\ applied.request.wait_continue
    /\ applied.request.content_length = 2
    /\ applied.sent = "none"

\* C21: once encode() has run, a second encode() leaves the method, the
\* url with its query, the headers and the data of the request as they
\* were and returns the same bytes as the first, also for a method of
\* ENCODE_URL_METHODS with data.
C21_EncodeTwiceSame ==
    applied.op = "encode_again"
    => /\ applied.request = applied.encoded
       /\ applied.bytes = applied.first

(***************************************************************************)
(* Properties of scheme, address and key (ProxySpec)                       *)
(***************************************************************************)

\* The order of the schemes as strings
SchemeRank == [ s \in Schemes \cup ProxySchemes |->
                  CASE s = "http" -> 1 [] s = "https" -> 2
                    [] s = "ws" -> 3 [] s = "wss" -> 4 ]

\* The port a netloc stands for under a scheme
PortOf(s, netloc) ==
    IF netloc.port # 0 THEN netloc.port
    ELSE IF s \in {"https", "wss"} THEN 443 ELSE 80

SuiteTests ==
    { ct \in (1..MaxClasses) \X (1..MaxTests) :
        ct[1] \in DOMAIN suite.t /\ ct[2] \in DOMAIN suite.t[ct[1]] }

\* What was called for a test, in order, and whether x is among it
CallsOf(ct) == suite.t[ct[1]][ct[2]].calls

Called(ct, x) == \E i \in DOMAIN CallsOf(ct) : CallsOf(ct)[i] = x

\* The calls of setUp, of the test function and of tearDown among them
IsMethod(x) == x \in {"setUp", "test", "tearDown"}

MethodsRun(ct) == SelectSeq(CallsOf(ct), IsMethod)

IsPrefix(a, b) == Len(a) <= Len(b) /\ a = SubSeq(b, 1, Len(a))

\* _run_test ran for the test and its test function is not marked skipped
RanTest(ct) ==
    /\ Called(ct, "startTest")
    /\ ~suite.classes[ct[1]].tests[ct[2]]

\* _run_test has called stopTest for the test
Stopped(ct) == suite.t[ct[1]][ct[2]].pc \in {"released", "finished"}

\* setUp of the test raised
SetUpRaised(ct) == Len(CallsOf(ct)) >= 3 /\ CallsOf(ct)[3] = "raise"

\* C25, as the claim states it: for a test that is not marked skipped
\* _run_test calls startTest first and stopTest last, and between them
\* setUp, the test function and tearDown, in this order.
C25_SetUpTestTearDown ==
    \A ct \in SuiteTests :
        RanTest(ct)
        => /\ CallsOf(ct)[1] = "startTest"
           /\ IsPrefix(MethodsRun(ct), <<"setUp", "test", "tearDown">>)
           /\ Called(ct, "stopTest") <=> Stopped(ct)
           /\ Stopped(ct)
              => /\ MethodsRun(ct) = <<"setUp", "test", "tearDown">>
                 /\ CallsOf(ct)[Len(CallsOf(ct))] = "stopTest"

\* C25, amended: for a test that is not marked skipped _run_test calls
\* startTest first and stopTest last, and between them setUp, then the
\* test function unless setUp raised, then tearDown, in this order.
C25_SetUpTestUnlessFailedTearDown ==
    \A ct \in SuiteTests :
        RanTest(ct)
        => LET expected == IF SetUpRaised(ct) THEN <<"setUp", "tearDown">>
                           ELSE <<"setUp", "test", "tearDown">>
           IN /\ CallsOf(ct)[1] = "startTest"
              /\ IsPrefix(MethodsRun(ct), expected)
              /\ Called(ct, "stopTest") <=> Stopped(ct)
              /\ Stopped(ct)
                 => /\ MethodsRun(ct) = expected
                    /\ CallsOf(ct)[Len(CallsOf(ct))] = "stopTest"

\* C25 witness: of two tests of a class, the first ran setUp, its test
\* function and tearDown, and the second, whose setUp raised, setUp and
\* tearDown; both were stopped
C25_Witness ==
    /\ <<1, 2>> \in SuiteTests
    /\ Stopped(<<1, 1>>) /\ Stopped(<<1, 2>>)
    /\ MethodsRun(<<1, 1>>) = <<"setUp", "test", "tearDown">>
    /\ SetUpRaised(<<1, 2>>)
    /\ MethodsRun(<<1, 2>>) = <<"setUp", "tearDown">>

\* C28: a test is reported as a success only if none of setUp, its test
\* function and tearDown raised, and never when add_failure was called for
\* it.
C28_SuccessOnlyWithoutFailure ==
    \A ct \in SuiteTests :
        Called(ct, "addSuccess")
        => /\ ~Called(ct, "raise")
           /\ ~Called(ct, "add_failure")
           /\ MethodsRun(ct) = <<"setUp", "test", "tearDown">>

\* A class whose tests are still to be run or are being run
Unfinished(c) ==
    suite.cpc[c] \in {"pending", "setUpClass", "released", "tests", "tearDownClass"}

\* C29: with a fair loop, and every fixture and test completing, the run
\* of every list of test classes comes to its end (on_end, printSummary
\* and _exit scheduled), also when setUpClass of a class raises; and the
\* end is not reached while a class is pending or running.
C29_RunReachesEnd ==
    /\ <>suite.ended
    /\ [](suite.ended => /\ suite.tests = <<>>
                          /\ \A c \in DOMAIN suite.cpc : ~Unfinished(c))

\* The end is not reached while a class is pending or running, and it is
\* reached when setUpClass of no class raises
C29_EndsUnlessSetUpClassFailed ==
    /\ <>(suite.ended \/ \E c \in DOMAIN suite.cpc : suite.cpc[c] = "failed")
    /\ [](suite.ended => /\ suite.tests = <<>>
                          /\ \A c \in DOMAIN suite.cpc : ~Unfinished(c))

====
